---- MODULE Spec2Model ----
(***************************************************************************)
(* A model of gvc (Gradle version catalog updater).                        *)
(*                                                                         *)
(* Text is modelled as it is stored: a string is a sequence of bytes, so   *)
(* parsing, lower-casing and lexicographic comparison are computed on the  *)
(* characters and not assumed.                                             *)
(***************************************************************************)
EXTENDS Integers, Sequences, FiniteSets, TLC

VARIABLES
    call,            \* the operation under way
    va, vb, vc,      \* version texts handed to the version model
    list,            \* version list handed to get_latest
    subject,         \* what is handed to the operation under way: a catalog item, a pattern and a name
    stable_only,     \* the stable_only flag of the call / run
    result,          \* what the operation returned, once it has
    repositories,    \* the repositories handed to MavenRepository::with_repositories
    client,          \* the MavenRepository: not built, built, or refused
    responses,       \* what each repository answers for the coordinate
    group,           \* the group of the coordinate looked up
    requests,        \* the repositories a request was sent to, in order
    mode,            \* the command: "update", "targeted" or "check"
    interactive,     \* the --interactive flag
    pattern,         \* the --filter pattern of a targeted update
    before,          \* the catalog file as it was when the run began
    engine,          \* the code that updates: DependencyUpdater or the update handlers
    disk,            \* the catalog file
    writes,          \* how often the catalog file has been written
    doc,             \* the document in memory
    report,          \* the UpdateReport
    pc,              \* where the run stands
    cursor,          \* the entry of the section the run stands at
    pending,         \* the update a confirmation is asked for
    apply_all,       \* Interaction::apply_all
    outcome,         \* how the run ended
    last_answer,     \* the latest line typed on standard input, and at which prompt
    decided,         \* the entries the run has resolved and decided
    candidates,      \* the candidates of a targeted update
    selected,        \* the candidate selected
    entries,         \* the versions offered for the selected candidate
    limit,           \* how many of them are displayed
    queries,         \* the lookups the run has sent to a resolver, in order
    reply,           \* what the resolver returned to the latest lookup
    reads            \* how many lines the run has read from standard input

versionVars == <<va, vb, vc, list, subject>>
resolverVars == <<repositories, client, responses, group, requests>>
runInputs == <<mode, interactive, pattern, before, engine>>
fileVars == <<disk, writes>>
targetVars == <<candidates, selected, entries, limit>>
stdin == <<last_answer, reads>>
lookupVars == <<queries, reply>>
runVars ==
    <<runInputs, fileVars, doc, report, pc, cursor, pending, apply_all, outcome,
      stdin, decided, targetVars, lookupVars>>
vars == <<call, stable_only, result, versionVars, resolverVars, runVars>>

(***************************************************************************)
(* Bytes and text.                                                         *)
(***************************************************************************)

\* The printable ASCII characters 32..122 in code order.
Ascii ==
    << " ", "!", "dquote", "#", "$", "%", "&", "'", "(", ")", "*", "+", ",", "-", ".", "/",
       "0", "1", "2", "3", "4", "5", "6", "7", "8", "9", ":", ";", "<", "=", ">", "?",
       "@", "A", "B", "C", "D", "E", "F", "G", "H", "I", "J", "K", "L", "M", "N", "O",
       "P", "Q", "R", "S", "T", "U", "V", "W", "X", "Y", "Z", "[", "backslash", "]", "^", "_",
       "backtick", "a", "b", "c", "d", "e", "f", "g", "h", "i", "j", "k", "l", "m", "n", "o",
       "p", "q", "r", "s", "t", "u", "v", "w", "x", "y", "z" >>

\* The byte of a one-character string.
Code(c) == 31 + (CHOOSE i \in 1..Len(Ascii) : Ascii[i] = c)

\* The text (byte sequence) written as a tuple of one-character strings.
B(t) == [i \in 1..Len(t) |-> Code(t[i])]

IsDigit(b) == b \in 48..57
IsUpper(b) == b \in 65..90
IsAlpha(b) == b \in 65..90 \/ b \in 97..122

AllDigits(s) == \A i \in 1..Len(s) : IsDigit(s[i])

\* str::to_lowercase on ASCII text.
to_lowercase(s) == [i \in 1..Len(s) |-> IF IsUpper(s[i]) THEN s[i] + 32 ELSE s[i]]

\* str::contains(pattern).
contains(s, m) ==
    \E i \in 1..(Len(s) - Len(m) + 1) : SubSeq(s, i, i + Len(m) - 1) = m

\* str::ends_with(suffix).
ends_with(s, m) ==
    /\ Len(s) >= Len(m)
    /\ SubSeq(s, Len(s) - Len(m) + 1, Len(s)) = m

\* The position of the first byte c in s, 0 when there is none.
IndexOf(s, c) ==
    IF \E i \in 1..Len(s) : s[i] = c
    THEN CHOOSE i \in 1..Len(s) : s[i] = c /\ \A j \in 1..(i - 1) : s[j] # c
    ELSE 0

\* str::split(sep): the pieces between separators, empty pieces included.
RECURSIVE split(_, _)
split(s, c) ==
    LET p == IndexOf(s, c) IN
    IF p = 0 THEN << s >>
    ELSE << SubSeq(s, 1, p - 1) >> \o split(SubSeq(s, p + 1, Len(s)), c)

\* Ordering results.
Less == "Less"
Equal == "Equal"
Greater == "Greater"

IntCmp(x, y) == IF x < y THEN Less ELSE IF x > y THEN Greater ELSE Equal

\* Ord for str: byte-wise lexicographic, a proper prefix is less.
RECURSIVE StrCmp(_, _)
StrCmp(a, b) ==
    IF a = << >> /\ b = << >> THEN Equal
    ELSE IF a = << >> THEN Less
    ELSE IF b = << >> THEN Greater
    ELSE IF a[1] < b[1] THEN Less
    ELSE IF a[1] > b[1] THEN Greater
    ELSE StrCmp(Tail(a), Tail(b))

\* A decimal numeral without its leading zeros; numerals are kept as text so
\* that u32 and u64 values keep their full width.
RECURSIVE StripZeros(_)
StripZeros(s) ==
    IF s # << >> /\ s[1] = 48 THEN StripZeros(Tail(s)) ELSE s

\* Numeric comparison of two stripped numerals: by length, then by digits.
NumCmp(x, y) ==
    IF Len(x) # Len(y) THEN IntCmp(Len(x), Len(y)) ELSE StrCmp(x, y)

U32Max == B(<< "4", "2", "9", "4", "9", "6", "7", "2", "9", "5" >>)
U64Max == B(<< "1", "8", "4", "4", "6", "7", "4", "4", "0", "7",
               "3", "7", "0", "9", "5", "5", "1", "6", "1", "5" >>)

\* Option<T>: None, or Some(x) holding x.
None == << >>
Some(x) == << x >>

(***************************************************************************)
(* Version model: src/src/maven/version.rs                                 *)
(***************************************************************************)

\* u32::from_str on one dot-separated part: an optional '+', then at least
\* one digit, the value at most u32::MAX.  The numeral is kept stripped.
parse_u32(p) ==
    LET body == IF p # << >> /\ p[1] = 43 THEN Tail(p) ELSE p
        n == StripZeros(body)
    IN IF body = << >> \/ ~AllDigits(body) THEN None
       ELSE IF NumCmp(n, U32Max) = Greater THEN None
       ELSE Some(n)

\* Version::parse_numeric: every part must be a u32.
parse_numeric(version) ==
    LET parts == split(version, 46)
        numbers == [i \in 1..Len(parts) |-> parse_u32(parts[i])]
    IN IF \E i \in 1..Len(parts) : numbers[i] = None THEN None
       ELSE IF numbers = << >> THEN None
       ELSE Some([i \in 1..Len(parts) |-> numbers[i][1]])

\* The longest prefix of s whose bytes satisfy Ok.
TakeWhile(s, Ok(_)) ==
    LET n == CHOOSE k \in 0..Len(s) :
                 /\ \A i \in 1..k : Ok(s[i])
                 /\ (k < Len(s) => ~Ok(s[k + 1]))
    IN SubSeq(s, 1, n)

\* A byte of a semver pre-release or build identifier, or the dot between them.
IsIdentByte(b) == IsDigit(b) \/ IsAlpha(b) \/ b = 45 \/ b = 46

\* semver numeric identifier: digits, no leading zero, at most u64::MAX.
SemverNumberOk(n) ==
    /\ n # << >>
    /\ AllDigits(n)
    /\ (Len(n) > 1 => n[1] # 48)
    /\ NumCmp(n, U64Max) # Greater

\* semver pre-release: non-empty dot-separated identifiers, numeric ones
\* without leading zeros.
SemverPreOk(pre) ==
    LET ids == split(pre, 46) IN
    \A i \in 1..Len(ids) :
        /\ ids[i] # << >>
        /\ (AllDigits(ids[i]) /\ Len(ids[i]) > 1 => ids[i][1] # 48)

\* semver build metadata: non-empty dot-separated identifiers.
SemverBuildOk(build) ==
    LET ids == split(build, 46) IN \A i \in 1..Len(ids) : ids[i] # << >>

\* s without its first n bytes.
Drop(s, n) == SubSeq(s, n + 1, Len(s))

\* semver::Version::parse after the patch number: s starts at the
\* pre-release (hasPre) or right behind the patch number.
SemverParseBuild(major, minor, patch, pre, hasPre, s) ==
    LET r == Drop(s, Len(pre))
        version(build) == Some([major |-> major, minor |-> minor, patch |-> patch,
                                pre |-> pre, build |-> build])
    IN IF hasPre /\ ~SemverPreOk(pre) THEN None
       ELSE IF r = << >> THEN version(<< >>)
       ELSE IF /\ r[1] = 43
               /\ \A i \in 2..Len(r) : IsIdentByte(r[i])
               /\ SemverBuildOk(Tail(r))
            THEN version(Tail(r))
       ELSE None

\* semver::Version::parse from the patch number on: s starts at it.
SemverParsePre(major, minor, patch, s) ==
    IF ~SemverNumberOk(patch) THEN None
    ELSE IF Len(patch) < Len(s) /\ s[Len(patch) + 1] = 45
    THEN SemverParseBuild(major, minor, patch,
                          TakeWhile(Drop(s, Len(patch) + 1), IsIdentByte), TRUE,
                          Drop(s, Len(patch) + 1))
    ELSE SemverParseBuild(major, minor, patch, << >>, FALSE, Drop(s, Len(patch)))

\* semver::Version::parse from the minor number on: s starts at it.
SemverParsePatch(major, minor, s) ==
    IF SemverNumberOk(minor) /\ Len(minor) < Len(s) /\ s[Len(minor) + 1] = 46
    THEN SemverParsePre(major, minor,
                        TakeWhile(Drop(s, Len(minor) + 1), IsDigit),
                        Drop(s, Len(minor) + 1))
    ELSE None

\* semver::Version::parse behind the major number.
SemverParseMinor(major, s) ==
    IF SemverNumberOk(major) /\ Len(major) < Len(s) /\ s[Len(major) + 1] = 46
    THEN SemverParsePatch(major,
                          TakeWhile(Drop(s, Len(major) + 1), IsDigit),
                          Drop(s, Len(major) + 1))
    ELSE None

\* semver::Version::parse: MAJOR.MINOR.PATCH[-pre][+build], nothing else.
SemverParse(s) == SemverParseMinor(TakeWhile(s, IsDigit), s)

SNAPSHOT == B(<< "-", "S", "N", "A", "P", "S", "H", "O", "T" >>)

\* The last two arms of Version::parse.
NumericOrUnknown(version, numeric) ==
    IF numeric # None THEN [type |-> "Numeric", v |-> numeric[1]]
    ELSE [type |-> "Unknown", v |-> version]

\* The classification Version::parse makes, semver::Version::parse having
\* returned sv.
VersionType(version, sv) ==
    IF sv # None THEN [type |-> "Semantic", v |-> sv[1]]
    ELSE IF ends_with(version, SNAPSHOT) THEN [type |-> "Snapshot", v |-> version]
    ELSE NumericOrUnknown(version, parse_numeric(version))

\* Version::parse: Semantic, else Snapshot, else Numeric, else Unknown.
parse(version) ==
    [original |-> version, parsed |-> VersionType(version, SemverParse(version))]

unstable_markers ==
    << B(<< "a", "l", "p", "h", "a" >>), B(<< "b", "e", "t", "a" >>), B(<< "r", "c" >>),
       B(<< "s", "n", "a", "p", "s", "h", "o", "t" >>), B(<< "d", "e", "v" >>),
       B(<< "-", "d", "e", "v" >>), B(<< "+", "d", "e", "v" >>), B(<< ".", "d", "e", "v" >>),
       B(<< "m", "1" >>), B(<< "m", "2" >>), B(<< "m", "3" >>),
       B(<< "e", "a", "p" >>), B(<< "p", "r", "e", "v", "i", "e", "w" >>),
       B(<< "c", "a", "n", "a", "r", "y" >>) >>

\* is_stable with the lower-casing forgotten.
is_stable_case_sensitive(v) ==
    IF \E i \in 1..Len(unstable_markers) : contains(v.original, unstable_markers[i])
    THEN FALSE
    ELSE IF v.parsed.type = "Semantic" THEN v.parsed.v.pre = << >>
    ELSE IF v.parsed.type = "Snapshot" THEN FALSE
    ELSE TRUE

\* Version::is_stable.
is_stable(v) ==
    LET lower == to_lowercase(v.original) IN
    IF \E i \in 1..Len(unstable_markers) : contains(lower, unstable_markers[i])
    THEN FALSE
    ELSE IF v.parsed.type = "Semantic" THEN v.parsed.v.pre = << >>
    ELSE IF v.parsed.type = "Snapshot" THEN FALSE
    ELSE TRUE

\* semver: Ord for Prerelease on two non-empty identifier lists.
RECURSIVE PreIdsCmp(_, _)
PreIdsCmp(l, r) ==
    IF l = << >> THEN (IF r = << >> THEN Equal ELSE Less)
    ELSE IF r = << >> THEN Greater
    ELSE LET a == l[1]
             b == r[1]
             o == IF AllDigits(a) /\ AllDigits(b)
                  THEN (IF Len(a) # Len(b) THEN IntCmp(Len(a), Len(b)) ELSE StrCmp(a, b))
                  ELSE IF AllDigits(a) THEN Less
                  ELSE IF AllDigits(b) THEN Greater
                  ELSE StrCmp(a, b)
         IN IF o # Equal THEN o ELSE PreIdsCmp(Tail(l), Tail(r))

\* semver: Ord for Prerelease; a release is greater than any pre-release.
PreCmp(a, b) ==
    IF a = << >> /\ b = << >> THEN Equal
    ELSE IF a = << >> THEN Greater
    ELSE IF b = << >> THEN Less
    ELSE PreIdsCmp(split(a, 46), split(b, 46))

\* semver: Ord for BuildMetadata on the identifier lists.
RECURSIVE BuildIdsCmp(_, _)
BuildIdsCmp(l, r) ==
    IF l = << >> THEN (IF r = << >> THEN Equal ELSE Less)
    ELSE IF r = << >> THEN Greater
    ELSE LET a == l[1]
             b == r[1]
             av == StripZeros(a)
             bv == StripZeros(b)
             o == IF AllDigits(a) /\ AllDigits(b)
                  THEN (IF Len(av) # Len(bv) THEN IntCmp(Len(av), Len(bv))
                        ELSE IF StrCmp(av, bv) # Equal THEN StrCmp(av, bv)
                        ELSE IntCmp(Len(a), Len(b)))
                  ELSE IF AllDigits(a) THEN Less
                  ELSE IF AllDigits(b) THEN Greater
                  ELSE StrCmp(a, b)
         IN IF o # Equal THEN o ELSE BuildIdsCmp(Tail(l), Tail(r))

\* semver: Ord for Version: major, minor, patch, pre, build.
SemverCmp(a, b) ==
    IF NumCmp(a.major, b.major) # Equal THEN NumCmp(a.major, b.major)
    ELSE IF NumCmp(a.minor, b.minor) # Equal THEN NumCmp(a.minor, b.minor)
    ELSE IF NumCmp(a.patch, b.patch) # Equal THEN NumCmp(a.patch, b.patch)
    ELSE IF PreCmp(a.pre, b.pre) # Equal THEN PreCmp(a.pre, b.pre)
    ELSE BuildIdsCmp(split(a.build, 46), split(b.build, 46))

\* The Numeric arm of cmp: element-wise over the common prefix, then by length.
RECURSIVE NumericCmp(_, _)
NumericCmp(a, b) ==
    IF a = << >> \/ b = << >> THEN IntCmp(Len(a), Len(b))
    ELSE IF NumCmp(a[1], b[1]) # Equal THEN NumCmp(a[1], b[1])
    ELSE NumericCmp(Tail(a), Tail(b))

\* cmp with the two Snapshot arms in the other order.
cmp_snapshot_arms_swapped(self, other) ==
    IF self.parsed.type = "Semantic" /\ other.parsed.type = "Semantic"
    THEN SemverCmp(self.parsed.v, other.parsed.v)
    ELSE IF self.parsed.type = "Numeric" /\ other.parsed.type = "Numeric"
    THEN NumericCmp(self.parsed.v, other.parsed.v)
    ELSE IF other.parsed.type = "Snapshot" THEN Greater
    ELSE IF self.parsed.type = "Snapshot" THEN Less
    ELSE StrCmp(self.original, other.original)

\* impl Ord for Version.
cmp(self, other) ==
    IF self.parsed.type = "Semantic" /\ other.parsed.type = "Semantic"
    THEN SemverCmp(self.parsed.v, other.parsed.v)
    ELSE IF self.parsed.type = "Numeric" /\ other.parsed.type = "Numeric"
    THEN NumericCmp(self.parsed.v, other.parsed.v)
    ELSE IF self.parsed.type = "Snapshot" THEN Less
    ELSE IF other.parsed.type = "Snapshot" THEN Greater
    ELSE StrCmp(self.original, other.original)

\* One step of the stable insertion sort behind Vec::sort on a short slice:
\* x moves left past every element it is less than.
RECURSIVE InsertTail(_, _)
InsertTail(p, x) ==
    IF p = << >> \/ cmp(x, p[Len(p)]) # Less THEN Append(p, x)
    ELSE Append(InsertTail(SubSeq(p, 1, Len(p) - 1), x), p[Len(p)])

\* Vec<Version>::sort.
RECURSIVE sort(_)
sort(v) ==
    IF v = << >> THEN << >>
    ELSE InsertTail(sort(SubSeq(v, 1, Len(v) - 1)), v[Len(v)])

\* Vec::retain.
retain(v, Keep(_)) == SelectSeq(v, Keep)

\* VersionComparator::get_latest.
get_latest(versions, stable) ==
    LET all == [i \in 1..Len(versions) |-> parse(versions[i])]
        parsed_versions == IF stable THEN retain(all, is_stable) ELSE all
        sorted == sort(parsed_versions)
    IN IF sorted = << >> THEN None ELSE Some(sorted[Len(sorted)].original)

\* VersionComparator::is_newer: a > b.
is_newer(a, b) == cmp(parse(a), parse(b)) = Greater

\* DefaultVersionStrategy::is_upgrade.
is_upgrade(current, candidate) == is_newer(candidate, current)

(***************************************************************************)
(* Repository resolver: src/src/maven/repository.rs                        *)
(***************************************************************************)

\* Result<T, GvcError>.
Ok(x) == [ok |-> TRUE, v |-> x]
Err(e) == [ok |-> FALSE, e |-> e]

MAX_METADATA_BYTES == 10485760

\* Regex::new on the subset of the syntax the filters drawn here use: literal
\* bytes, '.', an escaped punctuation byte, and '*' after one of these.  A
\* pattern that starts a repetition or a group without an operand is refused.
RECURSIVE RegexNew(_)
RegexNew(p) ==
    IF p = << >> THEN Some(<< >>)
    ELSE LET escaped == p[1] = 92
             n == IF escaped THEN 2 ELSE 1
             valid == IF escaped
                      THEN Len(p) >= 2 /\ ~IsAlpha(p[2]) /\ ~IsDigit(p[2])
                      ELSE p[1] \notin { 40, 41, 42, 43, 63, 91, 93, 123, 124, 125 }
             star == Len(p) > n /\ p[n + 1] = 42
             atom == [any |-> ~escaped /\ p[1] = 46,
                      c |-> IF escaped THEN p[2] ELSE p[1],
                      star |-> star]
             rest == RegexNew(SubSeq(p, n + (IF star THEN 2 ELSE 1), Len(p)))
         IN IF ~valid THEN None
            ELSE IF rest = None THEN None
            ELSE Some(<< atom >> \o rest[1])

\* The compiled pattern matches a prefix of s.
RECURSIVE MatchHere(_, _)
MatchHere(atoms, s) ==
    IF atoms = << >> THEN TRUE
    ELSE LET a == atoms[1]
             hit == s # << >> /\ (a.any \/ s[1] = a.c)
         IN IF a.star
            THEN MatchHere(Tail(atoms), s) \/ (hit /\ MatchHere(atoms, Tail(s)))
            ELSE hit /\ MatchHere(Tail(atoms), Tail(s))

\* Regex::is_match: the pattern matches somewhere in s.
is_match(atoms, s) ==
    \E i \in 1..(Len(s) + 1) : MatchHere(atoms, SubSeq(s, i, Len(s)))

\* MavenRepository::matches_filters: a filter that does not compile is passed over.
matches_filters(g, filters) ==
    \E i \in 1..Len(filters) :
        /\ RegexNew(filters[i]) # None
        /\ is_match(RegexNew(filters[i])[1], g)

\* MavenRepository::fetch_all_versions_from_repository, on the answer the
\* repository gives to the metadata request.
fetch_all_versions_from_repository(resp) ==
    IF ~resp.sent THEN Ok(None)
    ELSE IF ~resp.success THEN Ok(None)
    ELSE IF ~resp.readable THEN Err("Io")
    ELSE IF resp.len > MAX_METADATA_BYTES THEN Err("Io")
    ELSE IF ~resp.wellformed THEN Err("TomlParsing")
    ELSE Ok(Some(resp.versions))

\* The repository is passed over for this group.
Filtered(repo, g) ==
    repo.group_filters # << >> /\ ~matches_filters(g, repo.group_filters)

\* The loop of fetch_latest_version from repository i on: what it returns and
\* the repositories it sent a request to.
RECURSIVE latest_loop(_, _, _, _, _)
latest_loop(i, repos, resps, g, stable) ==
    IF i > Len(repos) THEN [out |-> Ok(None), requests |-> << >>]
    ELSE IF Filtered(repos[i], g) THEN latest_loop(i + 1, repos, resps, g, stable)
    ELSE LET r == fetch_all_versions_from_repository(resps[i])
             next == latest_loop(i + 1, repos, resps, g, stable)
         IN IF r.ok /\ r.v # None /\ r.v[1] # << >>
            THEN [out |-> Ok(get_latest(r.v[1], stable)), requests |-> << i >>]
            ELSE [out |-> next.out, requests |-> << i >> \o next.requests]

\* The loop with the filter test forgotten.
RECURSIVE latest_loop_unfiltered(_, _, _, _, _)
latest_loop_unfiltered(i, repos, resps, g, stable) ==
    IF i > Len(repos) THEN [out |-> Ok(None), requests |-> << >>]
    ELSE LET r == fetch_all_versions_from_repository(resps[i])
             next == latest_loop_unfiltered(i + 1, repos, resps, g, stable)
         IN IF r.ok /\ r.v # None /\ r.v[1] # << >>
            THEN [out |-> Ok(get_latest(r.v[1], stable)), requests |-> << i >>]
            ELSE [out |-> next.out, requests |-> << i >> \o next.requests]

\* The loop with a repository's error returned to the caller (the `?` operator).
RECURSIVE latest_loop_propagating(_, _, _, _, _)
latest_loop_propagating(i, repos, resps, g, stable) ==
    IF i > Len(repos) THEN [out |-> Ok(None), requests |-> << >>]
    ELSE IF Filtered(repos[i], g)
    THEN latest_loop_propagating(i + 1, repos, resps, g, stable)
    ELSE LET r == fetch_all_versions_from_repository(resps[i])
             next == latest_loop_propagating(i + 1, repos, resps, g, stable)
         IN IF ~r.ok THEN [out |-> r, requests |-> << i >>]
            ELSE IF r.v # None /\ r.v[1] # << >>
            THEN [out |-> Ok(get_latest(r.v[1], stable)), requests |-> << i >>]
            ELSE [out |-> next.out, requests |-> << i >> \o next.requests]

fetch_latest_version_unfiltered(repos, resps, g, stable) ==
    latest_loop_unfiltered(1, repos, resps, g, stable)

fetch_latest_version_propagating(repos, resps, g, stable) ==
    latest_loop_propagating(1, repos, resps, g, stable)

\* MavenRepository::fetch_latest_version.
fetch_latest_version(repos, resps, g, stable) ==
    latest_loop(1, repos, resps, g, stable)

\* Vec::dedup_by(|a, b| a.original == b.original): of each run of neighbours
\* with the same text the first is kept.
RECURSIVE dedup_by_original(_)
dedup_by_original(v) ==
    IF Len(v) <= 1 THEN v
    ELSE LET d == dedup_by_original(SubSeq(v, 1, Len(v) - 1))
         IN IF v[Len(v)].original = d[Len(d)].original THEN d
            ELSE Append(d, v[Len(v)])

\* Iterator::rev.
rev(v) == [i \in 1..Len(v) |-> v[Len(v) + 1 - i]]

\* The loop of fetch_available_versions from repository i on.
RECURSIVE available_loop(_, _, _, _)
available_loop(i, repos, resps, g) ==
    IF i > Len(repos) THEN [out |-> Ok(<< >>), requests |-> << >>]
    ELSE IF Filtered(repos[i], g) THEN available_loop(i + 1, repos, resps, g)
    ELSE LET r == fetch_all_versions_from_repository(resps[i])
             next == available_loop(i + 1, repos, resps, g)
             parsed == sort([k \in 1..Len(r.v[1]) |-> parse(r.v[1][k])])
             ordered == rev(dedup_by_original(parsed))
         IN IF r.ok /\ r.v # None /\ r.v[1] # << >>
            THEN [out |-> Ok([k \in 1..Len(ordered) |-> ordered[k].original]),
                  requests |-> << i >>]
            ELSE [out |-> next.out, requests |-> << i >> \o next.requests]

\* MavenRepository::fetch_available_versions.
fetch_available_versions(repos, resps, g) == available_loop(1, repos, resps, g)

(***************************************************************************)
(* Repository construction: with_repositories and the URL validation.      *)
(* A URL is the record Url::parse produces: whether it parsed, its scheme, *)
(* and its host, a domain name or an IPv4 or IPv6 address.                  *)
(***************************************************************************)

\* Value of a decimal numeral of at most three digits.
RECURSIVE DecValue(_)
DecValue(s) ==
    IF s = << >> THEN 0
    ELSE 10 * DecValue(SubSeq(s, 1, Len(s) - 1)) + (s[Len(s)] - 48)

IsHexDigit(c) ==
    IsDigit(c) \/ (c >= 97 /\ c <= 102) \/ (c >= 65 /\ c <= 70)

HexDigitValue(c) ==
    IF IsDigit(c) THEN c - 48 ELSE IF c >= 97 THEN c - 87 ELSE c - 55

\* Value of a hexadecimal numeral of at most four digits.
RECURSIVE HexValue(_)
HexValue(s) ==
    IF s = << >> THEN 0
    ELSE 16 * HexValue(SubSeq(s, 1, Len(s) - 1)) + HexDigitValue(s[Len(s)])

\* Ipv4Addr::from_str: four decimal octets, no leading zero, each at most 255.
ParseIpv4(s) ==
    LET parts == split(s, 46)
        OctetOk(p) == /\ p # << >>
                      /\ Len(p) <= 3
                      /\ AllDigits(p)
                      /\ (Len(p) > 1 => p[1] # 48)
                      /\ DecValue(p) <= 255
    IN IF Len(parts) = 4 /\ \A i \in 1..4 : OctetOk(parts[i])
       THEN Some([i \in 1..4 |-> DecValue(parts[i])])
       ELSE None

\* Ipv6Addr::from_str without the embedded IPv4 form: eight groups of one to
\* four hexadecimal digits, one run of zero groups may be written "::".
ParseIpv6(s) ==
    LET GroupOk(p) == p # << >> /\ Len(p) <= 4 /\ \A i \in 1..Len(p) : IsHexDigit(p[i])
        Groups(t) == IF t = << >> THEN << >> ELSE split(t, 58)
        GroupsOk(g) == \A i \in 1..Len(g) : GroupOk(g[i])
        Values(g) == [i \in 1..Len(g) |-> HexValue(g[i])]
        gaps == { i \in 1..(Len(s) - 1) : s[i] = 58 /\ s[i + 1] = 58 }
        at == CHOOSE i \in gaps : \A j \in gaps : i <= j
        left == Groups(SubSeq(s, 1, at - 1))
        right == Groups(SubSeq(s, at + 2, Len(s)))
        zeros == [i \in 1..(8 - Len(left) - Len(right)) |-> 0]
        all == Groups(s)
    IN IF gaps = { }
       THEN IF Len(all) = 8 /\ GroupsOk(all) THEN Some(Values(all)) ELSE None
       ELSE IF /\ Cardinality(gaps) = 1
               /\ GroupsOk(left) /\ GroupsOk(right)
               /\ Len(left) + Len(right) <= 7
            THEN Some(Values(left) \o zeros \o Values(right))
            ELSE None

\* <IpAddr as FromStr>::from_str.
ParseIpAddr(s) ==
    IF ParseIpv4(s) # None THEN Some([v4 |-> TRUE, a |-> ParseIpv4(s)[1]])
    ELSE IF ParseIpv6(s) # None THEN Some([v4 |-> FALSE, a |-> ParseIpv6(s)[1]])
    ELSE None

\* Ipv4Addr::is_private, Ipv4Addr::is_loopback.
v4_is_private(a) ==
    \/ a[1] = 10
    \/ a[1] = 172 /\ a[2] >= 16 /\ a[2] <= 31
    \/ a[1] = 192 /\ a[2] = 168
v4_is_loopback(a) == a[1] = 127

\* Ipv6Addr::is_loopback (::1), Ipv6Addr::is_unique_local (fc00::/7).
v6_is_loopback(a) == a = << 0, 0, 0, 0, 0, 0, 0, 1 >>
v6_is_unique_local(a) == a[1] \div 512 = 126

\* Url::host_str: the serialization of the host; an IPv6 address is written
\* between square brackets.
host_str(url) ==
    IF url.host = None THEN None
    ELSE IF url.host[1].kind = "ipv6"
         THEN Some(<< 91 >> \o url.host[1].text \o << 93 >>)
         ELSE Some(url.host[1].text)

\* MavenRepository::is_private_host.
is_private_host(host) ==
    IF to_lowercase(host) = B(<<"l","o","c","a","l","h","o","s","t">>) THEN TRUE
    ELSE LET ip == ParseIpAddr(host)
         IN IF ip = None THEN FALSE
            ELSE IF ip[1].v4 THEN v4_is_private(ip[1].a) \/ v4_is_loopback(ip[1].a)
            ELSE v6_is_loopback(ip[1].a) \/ v6_is_unique_local(ip[1].a)

HTTP == B(<<"h","t","t","p">>)
HTTPS == B(<<"h","t","t","p","s">>)

\* MavenRepository::validate_repository_url.
validate_repository_url(url) ==
    IF ~url.parsed THEN Err("ProjectValidation")
    ELSE IF url.scheme \notin { HTTPS, HTTP } THEN Err("ProjectValidation")
    ELSE IF host_str(url) # None /\ is_private_host(host_str(url)[1])
         THEN Err("ProjectValidation")
    ELSE Ok(<< >>)

\* MavenRepository::ensure_valid_repositories.
ensure_valid_repositories(repos) ==
    IF \E i \in 1..Len(repos) : ~validate_repository_url(repos[i].url).ok
    THEN Err("ProjectValidation")
    ELSE Ok(repos)

Domain(t) == Some([kind |-> "domain", text |-> t])
Ipv4(t) == Some([kind |-> "ipv4", text |-> t])
Ipv6(t) == Some([kind |-> "ipv6", text |-> t])
HttpsUrl(host) == [parsed |-> TRUE, scheme |-> HTTPS, host |-> host]

DEFAULT_MAVEN_CENTRAL ==
    HttpsUrl(Domain(B(<<"r","e","p","o","1",".","m","a","v","e","n",".","o","r","g">>)))
GOOGLE_MAVEN ==
    HttpsUrl(Domain(B(<<"d","l",".","g","o","o","g","l","e",".","c","o","m">>)))

\* MavenRepository::default_repositories.
default_repositories ==
    << [url |-> DEFAULT_MAVEN_CENTRAL, group_filters |-> << >>],
       [url |-> GOOGLE_MAVEN,
        group_filters |-> << B(<<".","*","g","o","o","g","l","e",".","*">>),
                             B(<<".","*","a","n","d","r","o","i","d",".","*">>),
                             B(<<".","*","a","n","d","r","o","i","d","x",".","*">>) >>] >>

\* MavenRepository::with_repositories; build_client does not fail here.
with_repositories(repos) ==
    ensure_valid_repositories(IF repos = << >> THEN default_repositories ELSE repos)

(***************************************************************************)
(* The catalog document (toml_edit::DocumentMut) as the updater reads it:  *)
(* three optional tables [versions], [libraries], [plugins], each a list   *)
(* of entries in document order.  An item is a string, an inline table or  *)
(* a table; a library or plugin table has the fields module, group, name,  *)
(* id (strings, when present) and version (a string, a table or inline     *)
(* table holding ref, or absent).                                          *)
(***************************************************************************)

Str(t) == [kind |-> "str", text |-> t]
NoItem == [kind |-> "absent"]
\* An item that is no string and no table: an integer, a boolean, an array.
OtherItem == [kind |-> "other"]
\* version = { ref = "key" } (shape "inline") or version.ref = "key" ("table").
VersionRef(shape, key) == [kind |-> shape, ref |-> Some(key)]
Fields(shape, module, grp, name, id, version) ==
    [kind |-> shape, module |-> module, group |-> grp, name |-> name, id |-> id,
     version |-> version]
Entry(key, value) == [key |-> key, value |-> value]

\* Item::as_str.
as_str(item) == IF item.kind = "str" THEN Some(item.text) ELSE None

\* The entries of doc.get(section).and_then(as_table), none when it is absent.
Entries(section) == IF section = None THEN << >> ELSE section[1]

\* The position of key in a table, 0 when it has no such key.
KeyIndex(table, key) ==
    IF \E i \in 1..Len(table) : table[i].key = key
    THEN CHOOSE i \in 1..Len(table) : table[i].key = key
    ELSE 0

\* The table with the value of key replaced.
SetValue(table, key, item) ==
    [i \in 1..Len(table) |-> IF table[i].key = key THEN Entry(key, item) ELSE table[i]]

\* The item with its version field replaced (insert("version", ..)).
WithVersion(item, version) == [item EXCEPT !.version = Str(version)]

COLON == 58

\* parse_maven_coordinate: "group:artifact" or "group:artifact:version".
CoordinateOfParts(parts) ==
    IF Len(parts) = 2
    THEN Some([group |-> parts[1], artifact |-> parts[2], version |-> None])
    ELSE IF Len(parts) = 3
    THEN Some([group |-> parts[1], artifact |-> parts[2], version |-> Some(parts[3])])
    ELSE None
parse_maven_coordinate(coordinate) == CoordinateOfParts(split(coordinate, COLON))

\* format!("{}:{}:{}", group, artifact, version).
format_coordinate(grp, artifact, version) ==
    grp \o << COLON >> \o artifact \o << COLON >> \o version

\* The (group, artifact) of a parsed coordinate.
GroupArtifact(c) ==
    IF c = None THEN None ELSE Some([group |-> c[1].group, artifact |-> c[1].artifact])

\* The coordinate of an inline table or table: from module, else from group
\* and name.
table_coordinate(value) ==
    IF value.module # None THEN GroupArtifact(parse_maven_coordinate(value.module[1]))
    ELSE IF value.group # None /\ value.name # None
    THEN Some([group |-> value.group[1], artifact |-> value.name[1]])
    ELSE None

\* The library's version is a reference to the alias version_key.
uses_this_version(lib_value, version_key) ==
    IF lib_value.kind = "inline"
    THEN lib_value.version.kind = "inline" /\ lib_value.version.ref = Some(version_key)
    ELSE IF lib_value.kind = "table"
    THEN /\ lib_value.version.kind \in { "table", "inline" }
         /\ lib_value.version.ref = Some(version_key)
    ELSE FALSE

\* representative_lib without the break: the last such library wins.
representative_lib_last(libraries, version_key) ==
    LET hits == { i \in 1..Len(libraries) :
                    /\ uses_this_version(libraries[i].value, version_key)
                    /\ table_coordinate(libraries[i].value) # None }
    IN IF hits = { } THEN None
       ELSE table_coordinate(libraries[CHOOSE i \in hits : \A j \in hits : i >= j].value)

\* The coordinate of the first library that references the alias and has a
\* coordinate.
representative_lib(libraries, version_key) ==
    LET hits == { i \in 1..Len(libraries) :
                    /\ uses_this_version(libraries[i].value, version_key)
                    /\ table_coordinate(libraries[i].value) # None }
    IN IF hits = { } THEN None
       ELSE table_coordinate(libraries[CHOOSE i \in hits : \A j \in hits : i <= j].value)

IsStrEntry(e) == e.value.kind = "str"

\* versions_data of update_versions_with_context: the string-valued aliases,
\* none when [versions] or [libraries] is missing.
versions_data(d) ==
    IF d.versions = None \/ d.libraries = None THEN << >>
    ELSE SelectSeq(Entries(d.versions), IsStrEntry)

(***************************************************************************)
(* UpdateReport.                                                           *)
(***************************************************************************)

NewReport == [version_updates |-> { }, library_updates |-> { }, plugin_updates |-> { }]

\* HashMap::insert(name, (old, new)).
insert(map, name, old, new) ==
    { e \in map : e.name # name } \cup { [name |-> name, old |-> old, new |-> new] }

add_update(r, section, name, old, new) ==
    IF section = "versions"
    THEN [r EXCEPT !.version_updates = insert(@, name, old, new)]
    ELSE IF section = "libraries"
    THEN [r EXCEPT !.library_updates = insert(@, name, old, new)]
    ELSE [r EXCEPT !.plugin_updates = insert(@, name, old, new)]

\* is_empty without the plugin updates.
is_empty_ignoring_plugins(r) ==
    r.version_updates = { } /\ r.library_updates = { }

\* UpdateReport::is_empty.
is_empty(r) ==
    r.version_updates = { } /\ r.library_updates = { } /\ r.plugin_updates = { }

(***************************************************************************)
(* Gradle Plugin Portal: src/src/maven/plugin_portal.rs                    *)
(***************************************************************************)

\* PluginPortalClient::fetch_all_plugin_versions on the portal's answer.
fetch_all_plugin_versions(resp) ==
    IF ~resp.sent THEN Ok(None)
    ELSE IF ~resp.success THEN Ok(None)
    ELSE IF ~resp.readable THEN Err("Io")
    ELSE IF ~resp.wellformed THEN Err("TomlParsing")
    ELSE Ok(Some(resp.versions))

\* What fetch_latest_plugin_version makes of the versions fetched.
LatestOfPluginVersions(r, stable) ==
    IF ~r.ok THEN r
    ELSE IF r.v = None THEN Ok(None)
    ELSE IF r.v[1] = << >> THEN Ok(None)
    ELSE Ok(get_latest(r.v[1], stable))

\* PluginPortalClient::fetch_latest_plugin_version.
fetch_latest_plugin_version(resp, stable) ==
    LatestOfPluginVersions(fetch_all_plugin_versions(resp), stable)

(***************************************************************************)
(* Update orchestration: src/src/agents/dependency_updater.rs              *)
(***************************************************************************)

VERSION_PAGE_SIZE == 10

min(a, b) == IF a < b THEN a ELSE b

\* char::is_whitespace on the bytes a terminal line holds.
IsSpace(b) == b \in { 9, 10, 11, 12, 13, 32 }

\* str::trim.
trim(s) ==
    LET kept == { i \in 1..Len(s) : ~IsSpace(s[i]) }
    IN IF kept = { } THEN << >>
       ELSE SubSeq(s, CHOOSE i \in kept : \A j \in kept : i <= j,
                      CHOOSE i \in kept : \A j \in kept : j <= i)

\* str::eq_ignore_ascii_case.
eq_ignore_ascii_case(a, b) == to_lowercase(a) = to_lowercase(b)

\* usize::from_str: an optional '+', then at least one digit, the value at
\* most usize::MAX (64 bits).  The numeral is kept stripped.
parse_usize(s) ==
    LET body == IF s # << >> /\ s[1] = 43 THEN Tail(s) ELSE s
        n == StripZeros(body)
    IN IF body = << >> \/ ~AllDigits(body) THEN None
       ELSE IF NumCmp(n, U64Max) = Greater THEN None
       ELSE Some(n)

\* lo <= choice && choice <= hi for a parsed choice and small lo, hi.
in_range(choice, lo, hi) ==
    /\ choice # None
    /\ Len(choice[1]) <= 4
    /\ lo <= DecValue(choice[1]) /\ DecValue(choice[1]) <= hi

(***************************************************************************)
(* Interaction::confirm.                                                   *)
(***************************************************************************)

\* Bytes that occur in no UTF-8 text.
NotUtf8 == { 192, 193 } \cup (245..255)

\* Stdin::read_line into a String: the line, an error when it is not UTF-8.
read_line(bytes) ==
    IF \E i \in 1..Len(bytes) : bytes[i] \in NotUtf8 THEN Err("Io") ELSE Ok(bytes)

Q == B(<< "q" >>)
QUIT == B(<< "q", "u", "i", "t" >>)

\* The same match with the arm of "n" and "no" missing: they are taken as
\* an accept.
decision_arm_without_no(decision) ==
    IF decision \in { << >>, B(<< "y" >>), B(<< "y", "e", "s" >>),
                      B(<< "n" >>), B(<< "n", "o" >>) } THEN "accept"
    ELSE IF decision \in { B(<< "a" >>), B(<< "a", "l", "l" >>) } THEN "all"
    ELSE IF decision \in { Q, QUIT } THEN "quit"
    ELSE "again"

\* The arm of the match on the trimmed, lower-cased line.
decision_arm(decision) ==
    IF decision \in { << >>, B(<< "y" >>), B(<< "y", "e", "s" >>) } THEN "accept"
    ELSE IF decision \in { B(<< "n" >>), B(<< "n", "o" >>) } THEN "decline"
    ELSE IF decision \in { B(<< "a" >>), B(<< "a", "l", "l" >>) } THEN "all"
    ELSE IF decision \in { Q, QUIT } THEN "quit"
    ELSE "again"

\* The same match with the quit arm taken as a decline.
decide_quit_declines(input) ==
    IF decision_arm(to_lowercase(trim(input))) = "quit" THEN "decline"
    ELSE decision_arm(to_lowercase(trim(input)))

\* What confirm makes of one line read from standard input.
decide(input) == decision_arm(to_lowercase(trim(input)))

(***************************************************************************)
(* What each handler asks the resolver about one entry.                    *)
(***************************************************************************)

Query(grp, artifact, current) ==
    Some([group |-> grp, artifact |-> artifact, current |-> current])

\* The coordinate and the version of a library written as one string.
StrLibraryQuery(c) ==
    IF c = None THEN None
    ELSE IF c[1].version = None THEN None
    ELSE Query(c[1].group, c[1].artifact, c[1].version[1])

\* The coordinate of an inline table, with the version when it is a string.
InlineLibraryQuery(value, c) ==
    IF c = None THEN None
    ELSE IF as_str(value.version) = None THEN None
    ELSE Query(c[1].group, c[1].artifact, as_str(value.version)[1])

\* The coordinate of a table, read from module only.
TableLibraryQuery(value) ==
    IF value.module = None THEN None
    ELSE InlineLibraryQuery(value, GroupArtifact(parse_maven_coordinate(value.module[1])))

\* check_library_update and check_library_for_update up to the lookup: the
\* coordinate to look up and the current version, none when the entry is
\* passed over.
library_query(value) ==
    IF value.kind = "str" THEN StrLibraryQuery(parse_maven_coordinate(value.text))
    ELSE IF value.kind = "inline" THEN InlineLibraryQuery(value, table_coordinate(value))
    ELSE IF value.kind = "table" THEN TableLibraryQuery(value)
    ELSE None

\* check_plugin_update up to the lookup: the plugin id and the current
\* version of a plugin written as a table.
plugin_query(value) ==
    IF value.kind # "table" THEN None
    ELSE IF value.id = None THEN None
    ELSE IF as_str(value.version) = None THEN None
    ELSE Some([id |-> value.id[1], current |-> as_str(value.version)[1]])

\* The guard of a version or plugin mutation, and of every proposal of the
\* check path, before the confirmation.
newer_and_different(latest, current) ==
    latest # None /\ latest[1] # current /\ is_newer(latest[1], current)

\* The guard of a library mutation before the confirmation.
different(latest, current) == latest # None /\ latest[1] # current

\* The library entry with its version replaced, in the shape it has.
library_with_version(value, grp, artifact, version) ==
    IF value.kind = "str" THEN Str(format_coordinate(grp, artifact, version))
    ELSE WithVersion(value, version)

\* The document with the change p applied, as the handler of p's section
\* applies it.
apply(d, p) ==
    IF p.section = "versions"
    THEN [d EXCEPT !.versions = Some(SetValue(Entries(@), p.key, Str(p.new)))]
    ELSE IF p.section = "libraries"
    THEN [d EXCEPT !.libraries =
            Some(SetValue(Entries(@), p.key,
                          library_with_version(Entries(@)[KeyIndex(Entries(@), p.key)].value,
                                               p.group, p.artifact, p.new)))]
    ELSE [d EXCEPT !.plugins =
            Some(SetValue(Entries(@), p.key,
                          WithVersion(Entries(@)[KeyIndex(Entries(@), p.key)].value, p.new)))]

Proposal(section, key, old, new, grp, artifact) ==
    [section |-> section, key |-> key, old |-> old, new |-> new,
     group |-> grp, artifact |-> artifact]

(***************************************************************************)
(* Targeted update: the pattern matcher, the candidates and the prompts.   *)
(***************************************************************************)

STAR == 42
QUESTION == 63

\* PatternMatcher::compile_glob: the compiled expression, one atom per
\* character of the glob.  '*' stands for any run of characters, '?' for one
\* character, every other character for itself (escaped where the regex
\* syntax needs it); (?i) makes letters match in either case.
compile_glob(glob) ==
    [i \in 1..Len(glob) |->
        [any |-> glob[i] \in { STAR, QUESTION },
         c |-> to_lowercase(<< glob[i] >>)[1],
         star |-> glob[i] = STAR]]

\* The glob the matcher compiles: the trimmed pattern, wrapped in '*' when it
\* holds neither '*' nor '?'.
adjusted(trimmed) ==
    IF \E i \in 1..Len(trimmed) : trimmed[i] \in { STAR, QUESTION } THEN trimmed
    ELSE << STAR >> \o trimmed \o << STAR >>

\* PatternMatcher::new.
PatternMatcher(p) ==
    IF trim(p) = << >> THEN Err("ProjectValidation")
    ELSE Ok(compile_glob(adjusted(trim(p))))

\* The expression, anchored at both ends, matches the whole of s.
RECURSIVE MatchAll(_, _)
MatchAll(atoms, s) ==
    IF atoms = << >> THEN s = << >>
    ELSE IF atoms[1].star
    THEN MatchAll(Tail(atoms), s) \/ (s # << >> /\ s[1] # 10 /\ MatchAll(atoms, Tail(s)))
    ELSE /\ s # << >>
         /\ IF atoms[1].any THEN s[1] # 10 ELSE s[1] = atoms[1].c
         /\ MatchAll(Tail(atoms), Tail(s))

\* PatternMatcher::matches.
matches(regex, value) == MatchAll(regex, to_lowercase(value))

Candidate(kind, name, current, grp, artifact, id) ==
    [kind |-> kind, name |-> name, current_version |-> current,
     group |-> grp, artifact |-> artifact, plugin_id |-> id]

LibraryCandidate(name, q) ==
    IF q = None THEN None
    ELSE Some(Candidate("Library", name, q[1].current, q[1].group, q[1].artifact, << >>))

\* build_library_candidate.
build_library_candidate(name, item) ==
    IF item.kind = "str"
    THEN LibraryCandidate(name, StrLibraryQuery(parse_maven_coordinate(item.text)))
    ELSE IF item.kind \in { "inline", "table" }
    THEN LibraryCandidate(name, InlineLibraryQuery(item, table_coordinate(item)))
    ELSE None

\* build_plugin_candidate.
build_plugin_candidate(name, item) ==
    IF item.kind \notin { "inline", "table" } THEN None
    ELSE IF item.id = None THEN None
    ELSE IF as_str(item.version) = None THEN None
    ELSE Some(Candidate("Plugin", name, as_str(item.version)[1], << >>, << >>, item.id[1]))

AliasCandidate(name, item, rep) ==
    IF as_str(item) = None \/ rep = None THEN None
    ELSE Some(Candidate("VersionAlias", name, as_str(item)[1],
                        rep[1].group, rep[1].artifact, << >>))

\* The concatenation of a sequence of sequences.
RECURSIVE Flatten(_)
Flatten(ss) == IF ss = << >> THEN << >> ELSE ss[1] \o Flatten(Tail(ss))

\* The candidates of one section, in document order.
SectionCandidates(table, regex, Build(_, _)) ==
    Flatten([i \in 1..Len(table) |->
                IF matches(regex, table[i].key) THEN Build(table[i].key, table[i].value)
                ELSE << >>])

\* TargetCandidate::display_name.
display_name(c) ==
    IF c.kind = "VersionAlias"
    THEN B(<< "v", "e", "r", "s", "i", "o", "n", " ", "a", "l", "i", "a", "s", " ", "'" >>)
         \o c.name \o B(<< "'", " ", "(" >>) \o c.group \o << COLON >> \o c.artifact
         \o B(<< ")" >>)
    ELSE IF c.kind = "Library"
    THEN B(<< "l", "i", "b", "r", "a", "r", "y", " ", "'" >>)
         \o c.name \o B(<< "'", " ", "(" >>) \o c.group \o << COLON >> \o c.artifact
         \o B(<< ")" >>)
    ELSE B(<< "p", "l", "u", "g", "i", "n", " ", "'" >>)
         \o c.name \o B(<< "'", " ", "(" >>) \o c.plugin_id \o B(<< ")" >>)

\* One step of the stable sort by display name.
RECURSIVE InsertByKey(_, _)
InsertByKey(p, x) ==
    IF p = << >> \/ StrCmp(display_name(x), display_name(p[Len(p)])) # Less
    THEN Append(p, x)
    ELSE Append(InsertByKey(SubSeq(p, 1, Len(p) - 1), x), p[Len(p)])

\* sort_by_key(|candidate| candidate.display_name()).
RECURSIVE sort_by_key(_)
sort_by_key(v) ==
    IF v = << >> THEN << >>
    ELSE InsertByKey(sort_by_key(SubSeq(v, 1, Len(v) - 1)), v[Len(v)])

\* collect_target_candidates.
collect_target_candidates(d, regex) ==
    LET Alias(name, item) ==
            AliasCandidate(name, item, representative_lib(Entries(d.libraries), name))
    IN sort_by_key(SectionCandidates(Entries(d.libraries), regex, build_library_candidate)
                   \o SectionCandidates(Entries(d.versions), regex, Alias)
                   \o SectionCandidates(Entries(d.plugins), regex, build_plugin_candidate))

\* What prompt_candidate_selection makes of one line: the index selected,
\* a cancellation, or another prompt.
candidate_choice(input, n) ==
    IF eq_ignore_ascii_case(trim(input), Q) THEN [kind |-> "cancel", index |-> 0]
    ELSE IF in_range(parse_usize(trim(input)), 1, n)
    THEN [kind |-> "chosen", index |-> DecValue(parse_usize(trim(input))[1])]
    ELSE [kind |-> "again", index |-> 0]

\* The entries fetch_versions_for_candidate builds from the versions fetched.
version_entries(versions, current) ==
    [i \in 1..Len(versions) |->
        [value |-> versions[i], is_stable |-> is_stable(parse(versions[i])),
         is_current |-> current = versions[i]]]

\* Iterator::find: the first entry satisfying Keep.
find(es, Keep(_)) ==
    IF \E i \in 1..Len(es) : Keep(es[i])
    THEN Some(es[CHOOSE i \in 1..Len(es) :
                    Keep(es[i]) /\ \A j \in 1..(i - 1) : ~Keep(es[j])].value)
    ELSE None

StableNotCurrent(e) == e.is_stable /\ ~e.is_current
NotCurrent(e) == ~e.is_current

\* select_default_version.
select_default_version(es, stable) ==
    IF stable /\ find(es, StableNotCurrent) # None THEN find(es, StableNotCurrent)
    ELSE find(es, NotCurrent)

\* The choice of a number taken as it is, the current version included.
numbered_choice_taking_current(choice, es, lim) ==
    IF ~in_range(choice, 1, lim) THEN [kind |-> "again", value |-> << >>, limit |-> lim]
    ELSE [kind |-> "chosen", value |-> es[DecValue(choice[1])].value, limit |-> lim]

\* What the choice of a number makes of the entries shown.
numbered_choice(choice, es, lim) ==
    IF ~in_range(choice, 1, lim) THEN [kind |-> "again", value |-> << >>, limit |-> lim]
    ELSE IF es[DecValue(choice[1])].is_current
    THEN [kind |-> "again", value |-> << >>, limit |-> lim]
    ELSE [kind |-> "chosen", value |-> es[DecValue(choice[1])].value, limit |-> lim]

\* The arm of the match of prompt_version_selection on the trimmed,
\* lower-cased line.
version_arm(trimmed, es, lim) ==
    IF trimmed = Q THEN [kind |-> "cancel", value |-> << >>, limit |-> lim]
    ELSE IF trimmed = B(<< "s" >>) THEN [kind |-> "skip", value |-> << >>, limit |-> lim]
    ELSE IF trimmed = B(<< "m" >>)
    THEN [kind |-> "again", value |-> << >>,
          limit |-> IF lim >= Len(es) THEN lim ELSE min(lim + VERSION_PAGE_SIZE, Len(es))]
    ELSE numbered_choice(parse_usize(trimmed), es, lim)

\* What prompt_version_selection makes of one line.
version_choice(input, es, lim) == version_arm(to_lowercase(trim(input)), es, lim)

\* The section a candidate of this kind lives in.
SectionOf(c) ==
    IF c.kind = "VersionAlias" THEN "versions"
    ELSE IF c.kind = "Library" THEN "libraries" ELSE "plugins"

TableOf(d, section) ==
    IF section = "versions" THEN d.versions
    ELSE IF section = "libraries" THEN d.libraries ELSE d.plugins

\* The shapes of an entry the mutation of a candidate of this kind goes through
\* with.
Shapes(kind) ==
    IF kind = "VersionAlias" THEN { "str", "inline", "table", "absent" }
    ELSE IF kind = "Library" THEN { "str", "inline", "table" }
    ELSE { "inline", "table" }

\* apply_target_update with apply_version_alias, apply_library_version and
\* apply_plugin_version: the document with the candidate's version replaced,
\* an error when its section or its entry is missing or has no known shape.
apply_target_update(d, c, new_version) ==
    IF TableOf(d, SectionOf(c)) = None THEN Err("TomlParsing")
    ELSE IF KeyIndex(Entries(TableOf(d, SectionOf(c))), c.name) = 0 THEN Err("TomlParsing")
    ELSE IF Entries(TableOf(d, SectionOf(c)))
                [KeyIndex(Entries(TableOf(d, SectionOf(c))), c.name)].value.kind
              \notin Shapes(c.kind)
    THEN Err("TomlParsing")
    ELSE Ok(apply(d, Proposal(SectionOf(c), c.name, c.current_version, new_version,
                              c.group, c.artifact)))

(***************************************************************************)
(* The coordinate a plugin is looked up under.                             *)
(***************************************************************************)

DOT == 46
SLASH == 47

GRADLE_PLUGIN_PORTAL ==
    B(<< "h", "t", "t", "p", "s", ":", "/", "/", "p", "l", "u", "g", "i", "n", "s", ".",
         "g", "r", "a", "d", "l", "e", ".", "o", "r", "g", "/", "m", "2" >>)

\* format!("{}.gradle.plugin", plugin_id) with the suffix left out.
plugin_artifact_bare(plugin_id) == plugin_id

\* format!("{}.gradle.plugin", plugin_id).
plugin_artifact(plugin_id) ==
    plugin_id \o B(<< ".", "g", "r", "a", "d", "l", "e", ".", "p", "l", "u", "g", "i", "n" >>)

\* str::replace of one byte by another.
replace(s, from, to) == [i \in 1..Len(s) |-> IF s[i] = from THEN to ELSE s[i]]

\* The metadata address fetch_all_plugin_versions sends its request to.
metadata_url(grp, artifact) ==
    GRADLE_PLUGIN_PORTAL \o << SLASH >> \o replace(grp, DOT, SLASH) \o << SLASH >>
        \o artifact \o << SLASH >>
        \o B(<< "m", "a", "v", "e", "n", "-", "m", "e", "t", "a", "d", "a", "t", "a", ".",
                "x", "m", "l" >>)

\* A lookup as the network sees it: the resolver asked, the coordinate, the
\* address when the resolver is the portal, and the entry it is for.
Request(resolver, grp, artifact, url) ==
    [resolver |-> resolver, group |-> grp, artifact |-> artifact, url |-> url]

\* The request of PluginPortalClient::fetch_latest_plugin_version.
plugin_request(plugin_id) ==
    Request("portal", plugin_id, plugin_artifact(plugin_id),
            metadata_url(plugin_id, plugin_artifact(plugin_id)))

\* The request of MavenRepository::fetch_latest_version and
\* fetch_available_versions.
library_request(grp, artifact) == Request("maven", grp, artifact, << >>)

\* Coordinate::plugin.
Coordinate_plugin(plugin_id) == [group |-> plugin_id, artifact |-> plugin_id]

\* Coordinate::new.
Coordinate_new(grp, artifact) == [group |-> grp, artifact |-> artifact]

\* MavenRepository as a RepositoryClient.
client_library_request(coordinate) == library_request(coordinate.group, coordinate.artifact)

\* The portal client as a RepositoryClient: the plugin identifier of the
\* coordinate is mapped as fetch_latest_plugin_version maps it.
portal_client_request(coordinate) == plugin_request(coordinate.group)

\* PluginPortalClient::fetch_available_plugin_versions: the same mapping.
available_plugin_request(plugin_id) == plugin_request(plugin_id)

(***************************************************************************)
(* TomlUtils: src/src/utils/toml.rs                                        *)
(***************************************************************************)

\* TomlUtils::extract_group_artifact.
extract_group_artifact(item) ==
    IF item.kind = "str" THEN GroupArtifact(parse_maven_coordinate(item.text))
    ELSE IF item.kind \in { "inline", "table" }
    THEN IF item.module # None THEN GroupArtifact(parse_maven_coordinate(item.module[1]))
         ELSE IF item.group # None /\ item.name # None
         THEN Some([group |-> item.group[1], artifact |-> item.name[1]])
         ELSE None
    ELSE None

\* extract_version taking the name of a referenced alias for a version.
extract_version_or_ref(item) ==
    IF item.kind \notin { "inline", "table" } THEN None
    ELSE IF item.version.kind \in { "inline", "table" } THEN item.version.ref
    ELSE as_str(item.version)

\* TomlUtils::extract_version.
extract_version(item) ==
    IF item.kind \in { "inline", "table" } THEN as_str(item.version) ELSE None

\* TomlUtils::extract_version_ref.
extract_version_ref(item) ==
    IF item.kind = "inline"
    THEN IF item.version.kind = "inline" THEN item.version.ref ELSE None
    ELSE IF item.kind = "table"
    THEN IF item.version.kind \in { "table", "inline" } THEN item.version.ref ELSE None
    ELSE None

\* TomlUtils::update_version: the item afterwards and whether it was changed.
update_version(item, new_version) ==
    IF item.kind = "str" THEN [item |-> Str(new_version), changed |-> TRUE]
    ELSE IF item.kind \in { "inline", "table" }
    THEN [item |-> WithVersion(item, new_version), changed |-> TRUE]
    ELSE [item |-> item, changed |-> FALSE]

\* TomlUtils::uses_version_ref.
uses_version_ref(item, version_key) == extract_version_ref(item) = Some(version_key)

LibraryDetails(grp, artifact, version, version_ref) ==
    [group |-> grp, artifact |-> artifact, version |-> version, version_ref |-> version_ref]

\* TomlUtils::extract_library_details.
extract_library_details(item) ==
    IF item.kind = "str"
    THEN IF parse_maven_coordinate(item.text) = None THEN None
         ELSE Some(LibraryDetails(parse_maven_coordinate(item.text)[1].group,
                                  parse_maven_coordinate(item.text)[1].artifact,
                                  parse_maven_coordinate(item.text)[1].version, None))
    ELSE IF extract_group_artifact(item) = None THEN None
    ELSE Some(LibraryDetails(extract_group_artifact(item)[1].group,
                             extract_group_artifact(item)[1].artifact,
                             extract_version(item), extract_version_ref(item)))

(***************************************************************************)
(* The handlers of src/src/agents/update/handlers.                         *)
(***************************************************************************)

\* VersionHandler::update, the representative of an alias: the coordinate of
\* the first library that uses the alias and has details.
handler_representative_lib(libraries, version_key) ==
    LET hits == { i \in 1..Len(libraries) :
                    /\ uses_version_ref(libraries[i].value, version_key)
                    /\ extract_library_details(libraries[i].value) # None }
    IN IF hits = { } THEN None
       ELSE LET d == extract_library_details(
                         libraries[CHOOSE i \in hits : \A j \in hits : i <= j].value)[1]
            IN Some([group |-> d.group, artifact |-> d.artifact])

\* LibraryHandler::check_library_update up to the lookup: the coordinate and
\* the current version, none when the entry is passed over.
handler_library_query(lib_value) ==
    IF extract_library_details(lib_value) = None THEN None
    ELSE IF extract_library_details(lib_value)[1].version = None THEN None
    ELSE Query(extract_library_details(lib_value)[1].group,
               extract_library_details(lib_value)[1].artifact,
               extract_library_details(lib_value)[1].version[1])

\* PluginHandler::check_plugin_update up to the lookup.
handler_plugin_query(plugin_value) ==
    IF plugin_value.kind # "table" THEN None
    ELSE IF plugin_value.id = None THEN None
    ELSE IF as_str(plugin_value.version) = None THEN None
    ELSE Some([id |-> plugin_value.id[1], current |-> as_str(plugin_value.version)[1]])

\* The guard of every handler's mutation before the confirmation.
handler_upgrade(latest, current) ==
    latest # None /\ latest[1] # current /\ is_upgrade(current, latest[1])

\* The mutation without the arm for a library written as one string.
handler_library_with_version_bare(lib_value, grp, artifact, latest) ==
    update_version(lib_value, latest).item

\* LibraryHandler::check_library_update, the mutation.
handler_library_with_version(lib_value, grp, artifact, latest) ==
    IF lib_value.kind = "str" THEN Str(format_coordinate(grp, artifact, latest))
    ELSE update_version(lib_value, latest).item

\* handler_apply writing the new version into the libraries that use the
\* alias as well.
handler_apply_resolving(d, p) ==
    IF p.section = "versions"
    THEN [d EXCEPT !.versions =
                     Some(SetValue(Entries(@), p.key,
                                   update_version(Entries(@)[KeyIndex(Entries(@), p.key)].value,
                                                  p.new).item)),
                   !.libraries =
                     Some([i \in 1..Len(Entries(@)) |->
                             IF uses_version_ref(Entries(@)[i].value, p.key)
                             THEN Entry(Entries(@)[i].key,
                                        update_version(Entries(@)[i].value, p.new).item)
                             ELSE Entries(@)[i]])]
    ELSE IF p.section = "libraries"
    THEN [d EXCEPT !.libraries =
            Some(SetValue(Entries(@), p.key,
                          handler_library_with_version(
                              Entries(@)[KeyIndex(Entries(@), p.key)].value,
                              p.group, p.artifact, p.new)))]
    ELSE [d EXCEPT !.plugins =
            Some(SetValue(Entries(@), p.key,
                          WithVersion(Entries(@)[KeyIndex(Entries(@), p.key)].value, p.new)))]

\* The document with the change p applied, as the handler of p's section
\* applies it.
handler_apply(d, p) ==
    IF p.section = "versions"
    THEN [d EXCEPT !.versions =
            Some(SetValue(Entries(@), p.key,
                          update_version(Entries(@)[KeyIndex(Entries(@), p.key)].value,
                                         p.new).item))]
    ELSE IF p.section = "libraries"
    THEN [d EXCEPT !.libraries =
            Some(SetValue(Entries(@), p.key,
                          handler_library_with_version(
                              Entries(@)[KeyIndex(Entries(@), p.key)].value,
                              p.group, p.artifact, p.new)))]
    ELSE [d EXCEPT !.plugins =
            Some(SetValue(Entries(@), p.key,
                          WithVersion(Entries(@)[KeyIndex(Entries(@), p.key)].value, p.new)))]

(***************************************************************************)
(* The mutations of the targeted update.                                   *)
(***************************************************************************)

\* TargetedHandler::apply_library_version.
apply_library_version(lib, grp, artifact, new_version) ==
    IF lib.kind = "str" THEN Ok(Str(format_coordinate(grp, artifact, new_version)))
    ELSE IF lib.kind \in { "inline", "table" } THEN Ok(WithVersion(lib, new_version))
    ELSE Err("TomlParsing")

\* TargetedHandler::apply_plugin_version.
apply_plugin_version(plugin, new_version) ==
    IF plugin.kind \in { "table", "inline" } THEN Ok(WithVersion(plugin, new_version))
    ELSE Err("TomlParsing")

(***************************************************************************)
(* CatalogEditor: a library or a plugin is added to the catalog, its       *)
(* version held by a version alias.                                        *)
(***************************************************************************)

HYPHEN == 45

IsAlphanumeric(b) == IsDigit(b) \/ IsAlpha(b)
NotEmpty(part) == part # << >>

\* The parts of a group or plugin id that say nothing.
CommonPrefixes ==
    { B(<< "o", "r", "g" >>), B(<< "c", "o", "m" >>), B(<< "n", "e", "t" >>),
      B(<< "i", "o" >>), B(<< "d", "e", "v" >>) }
NotCommon(part) == part \notin CommonPrefixes

\* part.replace(|c| !c.is_ascii_alphanumeric(), "") on every part.
OnlyAlphanumeric(parts) == [i \in 1..Len(parts) |-> SelectSeq(parts[i], IsAlphanumeric)]

\* group_tokens: the dot-separated parts, without the empty and the common
\* ones, each reduced to its letters and digits.
group_tokens(grp) ==
    SelectSeq(OnlyAlphanumeric(SelectSeq(SelectSeq(split(grp, DOT), NotEmpty), NotCommon)),
              NotEmpty)

\* plugin_tokens: the same on a plugin id.
plugin_tokens(plugin_id) ==
    SelectSeq(OnlyAlphanumeric(SelectSeq(SelectSeq(split(plugin_id, DOT), NotEmpty),
                                         NotCommon)),
              NotEmpty)

\* The loop of normalize_tokens: lower case, no empty token, no token equal
\* to the one before it.
RECURSIVE Normalized(_, _)
Normalized(tokens, normalized) ==
    IF tokens = << >> THEN normalized
    ELSE IF to_lowercase(Head(tokens)) = << >> THEN Normalized(Tail(tokens), normalized)
    ELSE IF normalized # << >> /\ normalized[Len(normalized)] = to_lowercase(Head(tokens))
    THEN Normalized(Tail(tokens), normalized)
    ELSE Normalized(Tail(tokens), Append(normalized, to_lowercase(Head(tokens))))

\* [String]::join(sep).
RECURSIVE join(_, _)
join(parts, sep) ==
    IF parts = << >> THEN << >>
    ELSE IF Len(parts) = 1 THEN parts[1]
    ELSE parts[1] \o sep \o join(Tail(parts), sep)

normalize_tokens(tokens) == join(Normalized(tokens, << >>), << HYPHEN >>)

sanitize_alias(raw) == normalize_tokens(<< raw >>)

\* artifact.split(['-', '.']).
SplitArtifact(artifact) == split(replace(artifact, HYPHEN, DOT), DOT)

generate_library_alias(grp, artifact) ==
    normalize_tokens(group_tokens(grp) \o SplitArtifact(artifact))

generate_plugin_alias(plugin_id) == normalize_tokens(plugin_tokens(plugin_id))

VERSION == B(<< "v", "e", "r", "s", "i", "o", "n" >>)

\* The version alias made of tokens: "<first two>-version" of three or more
\* tokens, all of them joined otherwise, fallback when there is none.
VersionAliasOf(tokens, fallback) ==
    IF tokens = << >> THEN fallback
    ELSE IF Len(tokens) >= 3
    THEN normalize_tokens(SubSeq(tokens, 1, 2)) \o << HYPHEN >> \o VERSION
    ELSE normalize_tokens(tokens)

generate_version_alias(grp) == VersionAliasOf(group_tokens(grp), VERSION)

generate_plugin_version_alias(plugin_id) ==
    VersionAliasOf(plugin_tokens(plugin_id),
                   B(<< "p", "l", "u", "g", "i", "n" >>) \o << HYPHEN >> \o VERSION)

\* parse_library_coordinate: group:artifact:version, each trimmed, none
\* empty.
LibraryCoordinateOf(parts) ==
    IF Len(parts) # 3 THEN Err("ProjectValidation")
    ELSE IF trim(parts[1]) = << >> \/ trim(parts[2]) = << >> \/ trim(parts[3]) = << >>
    THEN Err("ProjectValidation")
    ELSE Ok([group |-> trim(parts[1]), artifact |-> trim(parts[2]), version |-> trim(parts[3])])
parse_library_coordinate(input) == LibraryCoordinateOf(split(input, COLON))

\* parse_plugin_coordinate: plugin.id:version, each trimmed, none empty.
PluginCoordinateOf(parts) ==
    IF Len(parts) # 2 THEN Err("ProjectValidation")
    ELSE IF trim(parts[1]) = << >> \/ trim(parts[2]) = << >>
    THEN Err("ProjectValidation")
    ELSE Ok([plugin_id |-> trim(parts[1]), version |-> trim(parts[2])])
parse_plugin_coordinate(input) == PluginCoordinateOf(split(input, COLON))

\* ensure_section: the table of a section, an empty one when the document
\* has none.
ensure_section(section) == IF section = None THEN Some(<< >>) ELSE section

\* upsert_version_alias: the table with the alias at the version, and
\* whether it was changed; an error when the alias is there and is no string.
upsert_version_alias(table, key, version) ==
    IF KeyIndex(table, key) # 0
    THEN IF table[KeyIndex(table, key)].value.kind = "str"
         THEN IF table[KeyIndex(table, key)].value.text = version
              THEN Ok([table |-> table, updated |-> FALSE])
              ELSE Ok([table |-> SetValue(table, key, Str(version)), updated |-> TRUE])
         ELSE Err("ProjectValidation")
    ELSE Ok([table |-> Append(table, Entry(key, Str(version))), updated |-> TRUE])

\* The coordinate parsed from s is grp:artifact.
CoordinateMatches(s, grp, artifact) ==
    /\ parse_maven_coordinate(s) # None
    /\ parse_maven_coordinate(s)[1].group = grp
    /\ parse_maven_coordinate(s)[1].artifact = artifact

library_item_matches(item, grp, artifact) ==
    IF item.kind = "str" THEN CoordinateMatches(item.text, grp, artifact)
    ELSE IF item.kind \in { "inline", "table" }
    THEN \/ item.module # None /\ CoordinateMatches(item.module[1], grp, artifact)
         \/ item.group = Some(grp) /\ item.name = Some(artifact)
    ELSE FALSE

library_exists(table, grp, artifact) ==
    \E i \in 1..Len(table) : library_item_matches(table[i].value, grp, artifact)

plugin_item_matches(item, plugin_id) ==
    item.kind \in { "inline", "table" } /\ item.id = Some(plugin_id)

plugin_exists(table, plugin_id) ==
    \E i \in 1..Len(table) : plugin_item_matches(table[i].value, plugin_id)

\* The alias an override gives, the generated one without an override.
AliasOr(override, generated) ==
    IF override = None THEN generated ELSE sanitize_alias(override[1])

\* The library entry add_library writes: { module = "g:a", version = { ref = .. } }.
LibraryEntry(alias, grp, artifact, version_alias) ==
    Entry(alias, Fields("inline", Some(grp \o << COLON >> \o artifact), None, None, None,
                        VersionRef("inline", version_alias)))

\* The plugin entry add_plugin writes: { id = "..", version = { ref = .. } }.
PluginEntry(alias, plugin_id, version_alias) ==
    Entry(alias, Fields("inline", None, None, None, Some(plugin_id),
                        VersionRef("inline", version_alias)))

\* add_library once the coordinate is parsed and the aliases are chosen:
\* the document to write, or the error.
InsertLibrary(d, c, alias, version_alias) ==
    IF KeyIndex(Entries(d.libraries), alias) # 0 THEN Err("ProjectValidation")
    ELSE IF library_exists(Entries(d.libraries), c.group, c.artifact)
    THEN Err("ProjectValidation")
    ELSE IF ~upsert_version_alias(Entries(d.versions), version_alias, c.version).ok
    THEN Err("ProjectValidation")
    ELSE Ok([versions |->
                 Some(upsert_version_alias(Entries(d.versions), version_alias,
                                           c.version).v.table),
             libraries |->
                 Some(Append(Entries(d.libraries),
                             LibraryEntry(alias, c.group, c.artifact, version_alias))),
             plugins |-> d.plugins])

\* CatalogEditor::add_library on the document read from the file.
add_library(d, coordinate, alias_override, version_alias_override) ==
    IF ~parse_library_coordinate(coordinate).ok THEN Err("ProjectValidation")
    ELSE InsertLibrary([d EXCEPT !.versions = ensure_section(@),
                                 !.libraries = ensure_section(@)],
                       parse_library_coordinate(coordinate).v,
                       AliasOr(alias_override,
                               generate_library_alias(parse_library_coordinate(coordinate).v.group,
                                                      parse_library_coordinate(coordinate).v.artifact)),
                       AliasOr(version_alias_override,
                               generate_version_alias(parse_library_coordinate(coordinate).v.group)))

\* add_plugin once the coordinate is parsed and the aliases are chosen.
InsertPlugin(d, c, alias, version_alias) ==
    IF KeyIndex(Entries(d.plugins), alias) # 0 THEN Err("ProjectValidation")
    ELSE IF plugin_exists(Entries(d.plugins), c.plugin_id) THEN Err("ProjectValidation")
    ELSE IF ~upsert_version_alias(Entries(d.versions), version_alias, c.version).ok
    THEN Err("ProjectValidation")
    ELSE Ok([versions |->
                 Some(upsert_version_alias(Entries(d.versions), version_alias,
                                           c.version).v.table),
             libraries |-> d.libraries,
             plugins |->
                 Some(Append(Entries(d.plugins),
                             PluginEntry(alias, c.plugin_id, version_alias)))])

\* CatalogEditor::add_plugin on the document read from the file.
add_plugin(d, coordinate, alias_override, version_alias_override) ==
    IF ~parse_plugin_coordinate(coordinate).ok THEN Err("ProjectValidation")
    ELSE InsertPlugin([d EXCEPT !.versions = ensure_section(@),
                                !.plugins = ensure_section(@)],
                      parse_plugin_coordinate(coordinate).v,
                      AliasOr(alias_override,
                              generate_plugin_alias(parse_plugin_coordinate(coordinate).v.plugin_id)),
                      AliasOr(version_alias_override,
                              generate_plugin_version_alias(
                                  parse_plugin_coordinate(coordinate).v.plugin_id)))

(***************************************************************************)
(* Version strings the version model is exercised on.                      *)
(***************************************************************************)

Cores ==
    { B(<< "1", ".", "0" >>), B(<< "0", "1", ".", "0" >>), B(<< "9", ".", "0" >>),
      B(<< "1", "0", ".", "0" >>), B(<< "1", ".", "0", ".", "0" >>),
      B(<< "5", ".", "0", ".", "0" >>), B(<< "x" >>) }

OrderSuffixes ==
    { << >>, SNAPSHOT, B(<< "-", "a", "l", "p", "h", "a" >>), B(<< "+", "b" >>) }

StableSuffixes ==
    OrderSuffixes \cup
    { B(<< "-", "B", "E", "T", "A" >>), B(<< "-", "r", "c", "1" >>),
      B(<< "-", "d", "e", "v" >>), B(<< ".", "d", "e", "v" >>),
      B(<< "-", "M", "1" >>), B(<< "-", "m", "2" >>), B(<< ".", "M", "3" >>),
      B(<< "-", "e", "a", "p" >>), B(<< "-", "P", "r", "e", "v", "i", "e", "w" >>),
      B(<< "-", "c", "a", "n", "a", "r", "y" >>), B(<< "-", "x" >>),
      B(<< ".", "F", "i", "n", "a", "l" >>), B(<< "-", "m", "4" >>) }

OrderPool == { c \o x : c \in Cores, x \in OrderSuffixes }
StablePool == { c \o x : c \in Cores, x \in StableSuffixes }

\* Lists handed to get_latest: up to MaxList entries, repetitions allowed.
MaxList == 3
ListPool ==
    { B(<< "9", ".", "0" >>), B(<< "1", "0", ".", "0" >>), B(<< "5", ".", "0", ".", "0" >>),
      B(<< "1", ".", "0" >>), B(<< "0", "1", ".", "0" >>),
      B(<< "5", ".", "0", ".", "0", "-", "a", "l", "p", "h", "a" >>),
      B(<< "1", ".", "0" >>) \o SNAPSHOT }
Lists == UNION { [1..n -> ListPool] : n \in 0..MaxList }

Pending == [done |-> FALSE]

(***************************************************************************)
(* The version model applied to drawn inputs.                              *)
(***************************************************************************)

\* No resolver has been constructed.
ResolverIdle ==
    /\ repositories = << >> /\ client = "unbuilt" /\ responses = << >>
    /\ group = << >> /\ requests = << >>

\* No run is under way.
RunIdle ==
    /\ mode = "none" /\ interactive = FALSE /\ pattern = << >>
    /\ before = << >> /\ disk = << >> /\ writes = 0 /\ doc = << >>
    /\ report = << >> /\ pc = "idle" /\ cursor = 0 /\ pending = << >>
    /\ apply_all = FALSE /\ outcome = "none" /\ last_answer = << >>
    /\ decided = { } /\ candidates = << >> /\ selected = << >>
    /\ entries = << >> /\ limit = 0
    /\ engine = "none" /\ queries = << >> /\ reply = << >> /\ reads = 0

VersionInit ==
    /\ result = Pending /\ subject = << >>
    /\ ResolverIdle /\ RunIdle
    /\ \/ /\ call \in { "cmp", "is_upgrade" }
          /\ va \in OrderPool /\ vb \in OrderPool /\ vc \in OrderPool
          /\ list = << >> /\ stable_only = FALSE
       \/ /\ call = "is_stable"
          /\ va \in StablePool /\ vb = va /\ vc = va
          /\ list = << >> /\ stable_only = FALSE
       \/ /\ call = "get_latest"
          /\ list \in Lists /\ stable_only \in BOOLEAN
          /\ va = << >> /\ vb = << >> /\ vc = << >>

\* Version::cmp on each ordered pair of the three parsed versions.
Compare ==
    /\ call = "cmp" /\ ~result.done
    /\ LET a == parse(va)
           b == parse(vb)
           c == parse(vc)
       IN result' = [done |-> TRUE,
                     ab |-> cmp(a, b), ba |-> cmp(b, a),
                     bc |-> cmp(b, c), ac |-> cmp(a, c), aa |-> cmp(a, a)]
    /\ UNCHANGED <<call, stable_only, versionVars, resolverVars, runVars>>

\* DefaultVersionStrategy::is_upgrade in both directions and on itself.
IsUpgrade ==
    /\ call = "is_upgrade" /\ ~result.done
    /\ result' = [done |-> TRUE,
                  ab |-> is_upgrade(va, vb), ba |-> is_upgrade(vb, va),
                  aa |-> is_upgrade(va, va)]
    /\ UNCHANGED <<call, stable_only, versionVars, resolverVars, runVars>>

\* Version::parse followed by Version::is_stable.
IsStable ==
    /\ call = "is_stable" /\ ~result.done
    /\ result' = [done |-> TRUE, out |-> is_stable(parse(va))]
    /\ UNCHANGED <<call, stable_only, versionVars, resolverVars, runVars>>

\* VersionComparator::get_latest.
GetLatest ==
    /\ call = "get_latest" /\ ~result.done
    /\ result' = [done |-> TRUE, out |-> get_latest(list, stable_only)]
    /\ UNCHANGED <<call, stable_only, versionVars, resolverVars, runVars>>

VersionNext == Compare \/ IsUpgrade \/ IsStable \/ GetLatest

SpecVersion == VersionInit /\ [][VersionNext]_vars

(***************************************************************************)
(* Repository configurations, groups and answers the resolver is           *)
(* exercised on.                                                           *)
(***************************************************************************)

\* Most repositories one resolver is configured with.
MaxRepos == 2

COM_EXAMPLE == B(<<"c","o","m",".","e","x","a","m","p","l","e">>)
COM_GOOGLE_ANDROID ==
    B(<<"c","o","m",".","g","o","o","g","l","e",".","a","n","d","r","o","i","d">>)
GroupPool == { COM_EXAMPLE, COM_GOOGLE_ANDROID }

\* No filter; one pattern; a pattern that does not compile followed by one
\* that does; only a pattern that does not compile.
FilterPool ==
    { << >>,
      << B(<<".","*","g","o","o","g","l","e",".","*">>) >>,
      << B(<<"(">>), B(<<"c","o","m","backslash",".","e","x","a","m","p","l","e">>) >>,
      << B(<<"*">>) >> }

EXAMPLE_COM == Domain(B(<<"e","x","a","m","p","l","e",".","c","o","m">>))

UrlPool ==
    { DEFAULT_MAVEN_CENTRAL,
      [parsed |-> TRUE, scheme |-> HTTP, host |-> EXAMPLE_COM],
      [parsed |-> TRUE, scheme |-> B(<<"f","t","p">>), host |-> EXAMPLE_COM],
      [parsed |-> TRUE, scheme |-> B(<<"f","i","l","e">>), host |-> None],
      [parsed |-> FALSE, scheme |-> << >>, host |-> None],
      HttpsUrl(Domain(B(<<"l","o","c","a","l","h","o","s","t">>))),
      HttpsUrl(Domain(B(<<"L","o","c","a","l","H","o","s","t">>))),
      HttpsUrl(Ipv4(B(<<"8",".","8",".","8",".","8">>))),
      HttpsUrl(Ipv4(B(<<"1","2","7",".","0",".","0",".","1">>))),
      HttpsUrl(Ipv4(B(<<"1","0",".","0",".","0",".","1">>))),
      HttpsUrl(Ipv4(B(<<"1","7","2",".","1","6",".","0",".","1">>))),
      HttpsUrl(Ipv4(B(<<"1","9","2",".","1","6","8",".","1",".","1">>))),
      HttpsUrl(Ipv6(B(<<":",":","1">>))),
      HttpsUrl(Ipv6(B(<<"f","d","0","0",":",":","1">>))) }

Answer(sent, success, readable, len, wellformed, versions) ==
    [sent |-> sent, success |-> success, readable |-> readable, len |-> len,
     wellformed |-> wellformed, versions |-> versions]

\* What one repository may answer to a metadata request: no connection, an
\* error status, a body that cannot be read, a body one byte above the
\* ceiling, a body exactly at it, a body that is not metadata, metadata
\* without versions, and metadata with versions.
ResponsePool ==
    { Answer(FALSE, FALSE, FALSE, 0, FALSE, << >>),
      Answer(TRUE, FALSE, FALSE, 0, FALSE, << >>),
      Answer(TRUE, TRUE, FALSE, 0, FALSE, << >>),
      Answer(TRUE, TRUE, TRUE, MAX_METADATA_BYTES + 1, TRUE, << B(<<"9",".","0">>) >>),
      Answer(TRUE, TRUE, TRUE, MAX_METADATA_BYTES, TRUE, << B(<<"9",".","0">>) >>),
      Answer(TRUE, TRUE, TRUE, 300, FALSE, << >>),
      Answer(TRUE, TRUE, TRUE, 300, TRUE, << >>),
      Answer(TRUE, TRUE, TRUE, 300, TRUE,
             << B(<<"1",".","0">>), B(<<"0","1",".","0">>), B(<<"1",".","0">>) >>),
      Answer(TRUE, TRUE, TRUE, 300, TRUE,
             << B(<<"1",".","0",".","0">>), B(<<"2",".","0",".","0","-","a","l","p","h","a">>),
                B(<<"1",".","0",".","0">>) >>) }

SeqsUpTo(S, lo, hi) == UNION { [1..n -> S] : n \in lo..hi }

VersionIdle ==
    /\ va = << >> /\ vb = << >> /\ vc = << >> /\ list = << >> /\ subject = << >>

(***************************************************************************)
(* The resolver: constructed once from the configured repositories, then   *)
(* asked for the latest or for all versions of a coordinate.               *)
(***************************************************************************)

ResolverInit ==
    /\ call = "none" /\ result = Pending /\ stable_only = FALSE
    /\ VersionIdle /\ RunIdle
    /\ client = "unbuilt" /\ responses = << >> /\ group = << >> /\ requests = << >>
    /\ \/ repositories \in
             SeqsUpTo([url : UrlPool, group_filters : { << >> }], 0, MaxRepos)
       \/ repositories \in
             SeqsUpTo([url : { DEFAULT_MAVEN_CENTRAL }, group_filters : FilterPool],
                      1, MaxRepos)

\* MavenRepository::with_repositories.
Construct ==
    /\ client = "unbuilt"
    /\ LET r == with_repositories(repositories)
       IN /\ client' = IF r.ok THEN "ready" ELSE "failed"
          /\ repositories' = IF r.ok THEN r.v ELSE repositories
          /\ result' = [done |-> TRUE, out |-> IF r.ok THEN Ok(<< >>) ELSE r]
    /\ call' = "with_repositories"
    /\ UNCHANGED <<stable_only, versionVars, responses, group, requests, runVars>>

\* MavenRepository::fetch_latest_version for a group, each repository
\* answering as the network has it.  A lookup reads nothing an earlier lookup
\* wrote, so each behaviour makes one.
FetchLatest ==
    /\ client = "ready" /\ call = "with_repositories"
    /\ \E g \in GroupPool, stable \in BOOLEAN,
          answers \in [1..Len(repositories) -> ResponsePool] :
          LET r == fetch_latest_version(repositories, answers, g, stable)
          IN /\ result' = [done |-> TRUE, out |-> r.out]
             /\ requests' = r.requests
             /\ responses' = answers
             /\ group' = g
             /\ stable_only' = stable
    /\ call' = "fetch_latest_version"
    /\ UNCHANGED <<versionVars, repositories, client, runVars>>

\* MavenRepository::fetch_available_versions.
FetchAvailable ==
    /\ client = "ready" /\ call = "with_repositories"
    /\ \E g \in GroupPool, answers \in [1..Len(repositories) -> ResponsePool] :
          LET r == fetch_available_versions(repositories, answers, g)
          IN /\ result' = [done |-> TRUE, out |-> r.out]
             /\ requests' = r.requests
             /\ responses' = answers
             /\ group' = g
    /\ call' = "fetch_available_versions"
    /\ UNCHANGED <<stable_only, versionVars, repositories, client, runVars>>

PluginIdPool == { COM_EXAMPLE \o B(<< ".", "j", "v", "m" >>) }

\* PluginPortalClient::fetch_latest_plugin_version, the portal answering as
\* the network has it.  The portal client is built without repositories.
FetchPlugin ==
    /\ client = "unbuilt" /\ call = "none" /\ repositories = << >>
    /\ \E id \in PluginIdPool, stable \in BOOLEAN, answer \in ResponsePool :
          /\ result' = [done |-> TRUE, out |-> fetch_latest_plugin_version(answer, stable)]
          /\ responses' = << answer >>
          /\ group' = plugin_request(id).group
          /\ stable_only' = stable
    /\ call' = "fetch_latest_plugin_version"
    /\ UNCHANGED <<versionVars, repositories, client, requests, runVars>>

ResolverNext == Construct \/ FetchLatest \/ FetchAvailable \/ FetchPlugin

SpecResolver == ResolverInit /\ [][ResolverNext]_vars

(***************************************************************************)
(* Catalogs, patterns, answers and terminal lines one run is exercised on. *)
(***************************************************************************)

V_1_0_0 == B(<< "1", ".", "0", ".", "0" >>)
V_2_0_0 == B(<< "2", ".", "0", ".", "0" >>)
V_0_9_0 == B(<< "0", ".", "9", ".", "0" >>)
V_2_0_0_ALPHA == V_2_0_0 \o B(<< "-", "a", "l", "p", "h", "a" >>)

KT == B(<< "k", "t" >>)
STD == B(<< "s", "t", "d" >>)
OKIO == B(<< "o", "k", "i", "o" >>)
CORE == B(<< "c", "o", "r", "e" >>)
JVM == B(<< "j", "v", "m" >>)
LINT == B(<< "l", "i", "n", "t" >>)

\* [versions] kt = "1.0.0", rich = { .. }
\* [libraries] std = { module = "com.example:std", version.ref = "kt" }
\*             okio = "com.example:okio:1.0.0"
\* [plugins.jvm] id = "com.example.jvm", version = "1.0.0"
CatalogWithAlias ==
    [versions |->
        Some(<< Entry(KT, Str(V_1_0_0)),
                Entry(B(<< "r", "i", "c", "h" >>),
                      Fields("inline", None, None, None, None, NoItem)) >>),
     libraries |->
        Some(<< Entry(STD, Fields("inline", Some(COM_EXAMPLE \o << COLON >> \o STD),
                                  None, None, None, VersionRef("inline", KT))),
                Entry(OKIO, Str(format_coordinate(COM_EXAMPLE, OKIO, V_1_0_0))) >>),
     plugins |->
        Some(<< Entry(JVM, Fields("table", None, None, None,
                                  Some(COM_EXAMPLE \o B(<< ".", "j", "v", "m" >>)),
                                  Str(V_1_0_0))) >>)]

\* [libraries] core = { group = "com.example", name = "core", version = "1.0.0" }
\* [plugins] lint = { id = "com.example.lint", version = "1.0.0" }
CatalogInline ==
    [versions |-> None,
     libraries |->
        Some(<< Entry(CORE, Fields("inline", None, Some(COM_EXAMPLE), Some(CORE), None,
                                   Str(V_1_0_0))) >>),
     plugins |->
        Some(<< Entry(LINT, Fields("inline", None, None, None,
                                   Some(COM_EXAMPLE \o B(<< ".", "l", "i", "n", "t" >>)),
                                   Str(V_1_0_0))) >>)]

\* [versions] kt = "1.0.0"
\* [plugins.jvm] id = "com.example.jvm", version = "1.0.0"
CatalogNoLibraries ==
    [versions |-> Some(<< Entry(KT, Str(V_1_0_0)) >>),
     libraries |-> None,
     plugins |-> CatalogWithAlias.plugins]

LONE == B(<< "l", "o", "n", "e" >>)
BOM == B(<< "b", "o", "m" >>)
GRID == B(<< "g", "r", "i", "d" >>)
KSP == B(<< "k", "s", "p" >>)

\* [versions] kt = "1.0.0", lone = "1.0.0"
\* [libraries] bom = { group = "com.example", version.ref = "kt" }
\*             std = { module = "com.example:std", version.ref = "kt" }
\* [libraries.core] group = "com.example", name = "core", version.ref = "kt"
\* [libraries.grid] module = "com.example:grid", version = "1.0.0"
\* [plugins.jvm] id = "com.example.jvm", version.ref = "kt"
\* [plugins.lint] id = "com.example.lint", version = "1.0.0"
\* [plugins.ksp] id = "com.example.ksp", version = "1.0.0"
CatalogShared ==
    [versions |-> Some(<< Entry(KT, Str(V_1_0_0)), Entry(LONE, Str(V_1_0_0)) >>),
     libraries |->
        Some(<< Entry(BOM, Fields("inline", None, Some(COM_EXAMPLE), None, None,
                                  VersionRef("inline", KT))),
                Entry(STD, Fields("inline", Some(COM_EXAMPLE \o << COLON >> \o STD),
                                  None, None, None, VersionRef("inline", KT))),
                Entry(CORE, Fields("table", None, Some(COM_EXAMPLE), Some(CORE), None,
                                   VersionRef("table", KT))),
                Entry(GRID, Fields("table", Some(COM_EXAMPLE \o << COLON >> \o GRID),
                                   None, None, None, Str(V_1_0_0))) >>),
     plugins |->
        Some(<< Entry(JVM, Fields("table", None, None, None,
                                  Some(COM_EXAMPLE \o B(<< ".", "j", "v", "m" >>)),
                                  VersionRef("table", KT))),
                Entry(LINT, Fields("table", None, None, None,
                                   Some(COM_EXAMPLE \o B(<< ".", "l", "i", "n", "t" >>)),
                                   Str(V_1_0_0))),
                Entry(KSP, Fields("table", None, None, None,
                                  Some(COM_EXAMPLE \o B(<< ".", "k", "s", "p" >>)),
                                  Str(V_1_0_0))) >>)]

Catalogs == { CatalogWithAlias, CatalogInline, CatalogNoLibraries, CatalogShared }

\* Everything; one library by a part of its name; the alias in another case;
\* nothing; blank.
PatternPool ==
    { B(<< "*" >>), B(<< "k", "i" >>), B(<< "K", "?" >>), B(<< "z", "z" >>), B(<< " " >>) }

\* Repositories the project configures: none (the defaults are used), or one
\* on the local host.
RunRepositories ==
    { << >>,
      << [url |-> HttpsUrl(Domain(B(<<"l","o","c","a","l","h","o","s","t">>))),
          group_filters |-> << >>] >> }

\* Metadata with eleven versions.
ElevenVersions ==
    [i \in 1..11 |-> (IF i < 10 THEN << 48 + i >> ELSE << 49, 38 + i >>)
                     \o B(<< ".", "0", ".", "0" >>)]

\* What a repository or the plugin portal may answer during a run: no
\* connection, a body that is not metadata, an older version, newer versions,
\* the current version and a newer pre-release.
RunResponses ==
    { Answer(FALSE, FALSE, FALSE, 0, FALSE, << >>),
      Answer(TRUE, TRUE, TRUE, 300, FALSE, << >>),
      Answer(TRUE, TRUE, TRUE, 300, TRUE, << V_0_9_0 >>),
      Answer(TRUE, TRUE, TRUE, 300, TRUE, << V_1_0_0, V_2_0_0 >>),
      Answer(TRUE, TRUE, TRUE, 300, TRUE, << V_1_0_0, V_2_0_0_ALPHA >>),
      Answer(TRUE, TRUE, TRUE, 300, TRUE, ElevenVersions) }

\* What the portal's list of available versions of a plugin may come to.
PortalAvailable == { Err("Io"), Ok(<< >>), Ok(<< V_2_0_0, V_1_0_0 >>) }

NL == << 10 >>

\* Lines typed at a confirmation.
ConfirmInputs ==
    { NL, B(<< "y" >>) \o NL, B(<< "Y", "E", "S" >>) \o NL, B(<< "n" >>) \o NL,
      B(<< "a" >>) \o NL, B(<< "q" >>) \o NL, B(<< " ", "Q", "u", "i", "t", " " >>) \o NL,
      B(<< "x" >>) \o NL, << 255 >> \o NL }

\* Lines typed at a selection.
SelectInputs ==
    { B(<< "1" >>) \o NL, B(<< "2" >>) \o NL, B(<< "1", "1" >>) \o NL, B(<< "0" >>) \o NL,
      B(<< "q" >>) \o NL, B(<< "Q" >>) \o NL, B(<< "q", "u", "i", "t" >>) \o NL,
      B(<< "s" >>) \o NL, B(<< "m" >>) \o NL, << 255 >> \o NL }

(***************************************************************************)
(* One invocation: execute_update or execute_check from the construction   *)
(* of the updater on.                                                      *)
(***************************************************************************)

RunInit ==
    /\ call = "none" /\ result = Pending /\ VersionIdle
    /\ client = "unbuilt" /\ responses = << >> /\ group = << >> /\ requests = << >>
    /\ repositories \in RunRepositories
    /\ stable_only \in BOOLEAN
    /\ disk \in Catalogs /\ before = disk /\ writes = 0
    /\ \/ mode = "check" /\ interactive = FALSE /\ pattern = None
          /\ engine = "updater"
       \/ mode = "update" /\ interactive \in BOOLEAN /\ pattern = None
          /\ engine \in { "updater", "handlers" }
       \/ mode = "targeted" /\ interactive \in BOOLEAN /\ pattern \in { Some(p) : p \in PatternPool }
          /\ engine = "updater"
    /\ doc = << >> /\ report = << >> /\ pc = "start" /\ cursor = 0 /\ pending = None
    /\ apply_all = FALSE /\ outcome = "none" /\ last_answer = None /\ decided = { }
    /\ candidates = << >> /\ selected = None /\ entries = << >> /\ limit = 0
    /\ queries = << >> /\ reply = None /\ reads = 0

\* What no step of a run changes.
fixedVars == <<call, result, versionVars, responses, group, requests, stable_only, runInputs>>

Handled(section, key) == [section |-> section, key |-> key]

\* The entries of a section, as handled.
AllHandled(section, table) == { Handled(section, table[i].key) : i \in 1..Len(table) }

\* The state of the handlers after a step.
Step(d, r, p, c, pend, all, out, dec) ==
    /\ doc' = d /\ report' = r /\ pc' = p /\ cursor' = c /\ pending' = pend
    /\ apply_all' = all /\ outcome' = out /\ decided' = dec

\* The run ends without a write.
End(out) == Step(doc, report, "done", cursor, None, apply_all, out, decided)

\* The entry under the cursor is passed over.
Skip(next, section, key) ==
    Step(doc, report, next, cursor + 1, None, apply_all, outcome,
         decided \cup { Handled(section, key) })

\* The document with the change p applied by the code that runs.
Apply(d, p) == IF engine = "handlers" THEN handler_apply(d, p) ELSE apply(d, p)

\* How many lines a run is followed through.
MaxReads == 3

\* One line is read from standard input.
ReadLine(prompt, input) ==
    /\ reads < MaxReads
    /\ last_answer' = Some([prompt |-> prompt, text |-> input])
    /\ reads' = reads + 1

\* A lookup is sent for the entry key of section and the resolver returns r.
Asked(section, key, request, r) ==
    /\ queries' = Append(queries, [section |-> section, key |-> key, request |-> request])
    /\ reply' = Some(r)

\* The change p is applied to the document in memory and recorded.
Accept(p, all) ==
    Step(Apply(doc, p), add_update(report, p.section, p.key, p.old, p.new), p.section,
         cursor + 1, None, all, outcome, decided \cup { Handled(p.section, p.key) })

\* Interaction::confirm up to the prompt, asking whether or not apply-all is
\* set.
Propose_asking_again(p) ==
    IF ~interactive THEN Accept(p, apply_all)
    ELSE Step(doc, report, "confirm", cursor, Some(p), apply_all, outcome, decided)

\* Interaction::confirm up to the prompt: no prompt when interaction is off
\* or apply-all is set.
Propose(p) ==
    IF ~interactive \/ apply_all THEN Accept(p, apply_all)
    ELSE Step(doc, report, "confirm", cursor, Some(p), apply_all, outcome, decided)

\* DependencyUpdater::with_repositories, then the catalog is read and parsed.
Load(next) ==
    /\ pc = "start"
    /\ IF with_repositories(repositories).ok
       THEN /\ client' = "ready"
            /\ repositories' = with_repositories(repositories).v
            /\ Step(disk, NewReport, next, 1, None, FALSE, outcome, decided)
       ELSE /\ client' = "failed"
            /\ repositories' = repositories
            /\ End("error")
    /\ UNCHANGED <<fixedVars, fileVars, stdin, targetVars, lookupVars>>

\* execute_update without a filter: update_version_catalog begins.
StartUpdate == mode = "update" /\ Load("versions")

\* execute_check: check_for_updates begins.
StartCheck == mode = "check" /\ Load("check_versions")

\* The aliases update_versions_with_context goes through.
AliasWork == versions_data(disk)

\* The aliases check_versions_section goes through.
CheckAliasWork ==
    IF disk.versions = None \/ disk.libraries = None THEN << >> ELSE Entries(disk.versions)

\* The entries the section handler at pc goes through.
Work ==
    IF pc = "versions" THEN AliasWork
    ELSE IF pc = "check_versions" THEN CheckAliasWork
    ELSE IF pc \in { "libraries", "check_libraries" } THEN Entries(disk.libraries)
    ELSE IF pc = "plugins" THEN Entries(disk.plugins)
    ELSE << >>

\* The latest version the resolver returns for a group, each repository
\* answering as the network has it.
Latest(answers, grp) == fetch_latest_version(repositories, answers, grp, stable_only).out.v

\* What the repositories may answer to one lookup: anything, unless the
\* answers of the network are held fixed.
Answers ==
    IF subject = << >> THEN [1..Len(repositories) -> RunResponses]
    ELSE { [i \in 1..Len(repositories) |-> subject.library] }

\* What the plugin portal may answer to one lookup.
PortalAnswers == IF subject = << >> THEN RunResponses ELSE { subject.plugin }

\* The entry's part of each section handler, in the code that runs.
Representative(key) ==
    IF engine = "handlers" THEN handler_representative_lib(Entries(doc.libraries), key)
    ELSE representative_lib(Entries(doc.libraries), key)
LibraryQuery(value) ==
    IF engine = "handlers" THEN handler_library_query(value) ELSE library_query(value)
PluginQuery(value) ==
    IF engine = "handlers" THEN handler_plugin_query(value) ELSE plugin_query(value)
AliasGuard(latest, current) ==
    IF engine = "handlers" THEN handler_upgrade(latest, current)
    ELSE newer_and_different(latest, current)
LibraryGuard(latest, current) ==
    IF engine = "handlers" THEN handler_upgrade(latest, current)
    ELSE different(latest, current)
PluginGuard(latest, current) ==
    IF engine = "handlers" THEN handler_upgrade(latest, current)
    ELSE newer_and_different(latest, current)
LibraryRequest(grp, artifact) ==
    IF engine = "handlers" THEN client_library_request(Coordinate_new(grp, artifact))
    ELSE library_request(grp, artifact)
PluginRequest(plugin_id) ==
    IF engine = "handlers" THEN portal_client_request(Coordinate_plugin(plugin_id))
    ELSE plugin_request(plugin_id)

\* update_versions_with_context or VersionHandler::update, one alias.
UpdateVersion ==
    /\ pc = "versions" /\ cursor <= Len(Work)
    /\ LET key == Work[cursor].key
           current == Work[cursor].value.text
           rep == Representative(key)
       IN IF rep = None THEN Skip(pc, "versions", key) /\ UNCHANGED lookupVars
          ELSE \E answers \in Answers :
                 /\ Asked("versions", key, LibraryRequest(rep[1].group, rep[1].artifact),
                          Ok(Latest(answers, rep[1].group)))
                 /\ IF AliasGuard(Latest(answers, rep[1].group), current)
                    THEN Propose(Proposal("versions", key, current,
                                          Latest(answers, rep[1].group)[1], << >>, << >>))
                    ELSE Skip(pc, "versions", key)
    /\ UNCHANGED <<fixedVars, fileVars, stdin, targetVars, repositories, client>>

\* update_libraries_section with check_library_update, or
\* LibraryHandler::update, one library.
UpdateLibrary ==
    /\ pc = "libraries" /\ cursor <= Len(Work)
    /\ LET key == Work[cursor].key
           q == LibraryQuery(Entries(doc.libraries)[cursor].value)
       IN IF q = None THEN Skip(pc, "libraries", key) /\ UNCHANGED lookupVars
          ELSE \E answers \in Answers :
                 /\ Asked("libraries", key, LibraryRequest(q[1].group, q[1].artifact),
                          Ok(Latest(answers, q[1].group)))
                 /\ IF LibraryGuard(Latest(answers, q[1].group), q[1].current)
                    THEN Propose(Proposal("libraries", key, q[1].current,
                                          Latest(answers, q[1].group)[1],
                                          q[1].group, q[1].artifact))
                    ELSE Skip(pc, "libraries", key)
    /\ UNCHANGED <<fixedVars, fileVars, stdin, targetVars, repositories, client>>

\* update_plugins_section with check_plugin_update, or PluginHandler::update,
\* one plugin.  An error of the portal client ends the run.
UpdatePlugin ==
    /\ pc = "plugins" /\ cursor <= Len(Work)
    /\ LET key == Work[cursor].key
           q == PluginQuery(Entries(doc.plugins)[cursor].value)
       IN IF q = None THEN Skip(pc, "plugins", key) /\ UNCHANGED lookupVars
          ELSE \E answer \in PortalAnswers :
                 /\ Asked("plugins", key, PluginRequest(q[1].id),
                          fetch_latest_plugin_version(answer, stable_only))
                 /\ LET r == fetch_latest_plugin_version(answer, stable_only)
                    IN IF ~r.ok THEN End("error")
                       ELSE IF PluginGuard(r.v, q[1].current)
                       THEN Propose(Proposal("plugins", key, q[1].current, r.v[1],
                                             << >>, << >>))
                       ELSE Skip(pc, "plugins", key)
    /\ UNCHANGED <<fixedVars, fileVars, stdin, targetVars, repositories, client>>

\* Interaction::confirm, one line read from standard input.
Confirm ==
    /\ pc = "confirm"
    /\ \E input \in ConfirmInputs :
         /\ ReadLine("confirm", input)
         /\ IF ~read_line(input).ok THEN End("error")
            ELSE IF decide(input) = "accept" THEN Accept(pending[1], apply_all)
            ELSE IF decide(input) = "all" THEN Accept(pending[1], TRUE)
            ELSE IF decide(input) = "decline"
            THEN Skip(pending[1].section, pending[1].section, pending[1].key)
            ELSE IF decide(input) = "quit" THEN End("cancelled")
            ELSE Step(doc, report, pc, cursor, pending, apply_all, outcome, decided)
    /\ UNCHANGED <<fixedVars, fileVars, targetVars, repositories, client, lookupVars>>

\* The handler that follows the one at pc.
Following ==
    IF pc = "versions" THEN "libraries"
    ELSE IF pc = "libraries" THEN "plugins"
    ELSE "check_libraries"

\* The table the handler at pc was given.
SectionTable ==
    IF pc \in { "versions", "check_versions" } THEN Entries(disk.versions)
    ELSE Entries(disk.libraries)

\* A section handler returns and the next one begins.
NextSection ==
    /\ pc \in { "versions", "libraries", "check_versions" }
    /\ cursor > Len(Work)
    /\ Step(doc, report, Following, 1, None, apply_all, outcome,
            decided \cup AllHandled(IF pc = "libraries" THEN "libraries" ELSE "versions",
                                    SectionTable))
    /\ UNCHANGED <<fixedVars, fileVars, stdin, targetVars, repositories, client, lookupVars>>

\* The end of update_version_catalog: the document is written when the
\* report is not empty.
WriteBack ==
    /\ pc = "plugins" /\ cursor > Len(Work)
    /\ IF ~is_empty(report)
       THEN disk' = doc /\ writes' = writes + 1
       ELSE UNCHANGED fileVars
    /\ Step(doc, report, "done", cursor, None, apply_all, "ok",
            decided \cup AllHandled("plugins", Entries(disk.plugins)))
    /\ UNCHANGED <<fixedVars, stdin, targetVars, repositories, client, lookupVars>>

\* check_versions_section, one alias.
CheckVersion ==
    /\ pc = "check_versions" /\ cursor <= Len(Work)
    /\ LET key == Work[cursor].key
           current == as_str(Work[cursor].value)
           rep == representative_lib(Entries(doc.libraries), key)
       IN IF current = None \/ rep = None
          THEN Skip(pc, "versions", key) /\ UNCHANGED lookupVars
          ELSE \E answers \in Answers :
                 /\ Asked("versions", key, library_request(rep[1].group, rep[1].artifact),
                          Ok(Latest(answers, rep[1].group)))
                 /\ IF newer_and_different(Latest(answers, rep[1].group), current[1])
                    THEN Step(doc,
                              add_update(report, "versions", key, current[1],
                                         Latest(answers, rep[1].group)[1]),
                              pc, cursor + 1, None, apply_all, outcome,
                              decided \cup { Handled("versions", key) })
                    ELSE Skip(pc, "versions", key)
    /\ UNCHANGED <<fixedVars, fileVars, stdin, targetVars, repositories, client>>

\* check_libraries_section with check_library_for_update, one library.
CheckLibrary ==
    /\ pc = "check_libraries" /\ cursor <= Len(Work)
    /\ LET key == Work[cursor].key
           q == library_query(Work[cursor].value)
       IN IF q = None THEN Skip(pc, "libraries", key) /\ UNCHANGED lookupVars
          ELSE \E answers \in Answers :
                 /\ Asked("libraries", key, library_request(q[1].group, q[1].artifact),
                          Ok(Latest(answers, q[1].group)))
                 /\ IF newer_and_different(Latest(answers, q[1].group), q[1].current)
                    THEN Step(doc,
                              add_update(report, "libraries", key, q[1].current,
                                         Latest(answers, q[1].group)[1]),
                              pc, cursor + 1, None, apply_all, outcome,
                              decided \cup { Handled("libraries", key) })
                    ELSE Skip(pc, "libraries", key)
    /\ UNCHANGED <<fixedVars, fileVars, stdin, targetVars, repositories, client>>

\* The end of check_for_updates: the report is returned, nothing is written.
FinishCheck ==
    /\ pc = "check_libraries" /\ cursor > Len(Work)
    /\ Step(doc, report, "done", cursor, None, apply_all, "ok",
            decided \cup AllHandled("libraries", Entries(disk.libraries)))
    /\ UNCHANGED <<fixedVars, fileVars, stdin, targetVars, repositories, client, lookupVars>>

\* The candidate selected.
Target == selected[1]

\* The tail of update_targeted_dependency once a version is chosen: nothing
\* to do when it is the current one, else the change is applied and the
\* document written.
Chosen(version) ==
    IF version = Target.current_version
    THEN End("ok") /\ UNCHANGED fileVars
    ELSE IF ~apply_target_update(doc, Target, version).ok
    THEN End("error") /\ UNCHANGED fileVars
    ELSE /\ disk' = apply_target_update(doc, Target, version).v
         /\ writes' = writes + 1
         /\ Step(apply_target_update(doc, Target, version).v,
                 add_update(NewReport, SectionOf(Target), Target.name,
                            Target.current_version, version),
                 "done", cursor, None, apply_all, "ok",
                 decided \cup { Handled(SectionOf(Target), Target.name) })

\* The candidates found in the catalog read, none when the pattern is refused.
Found ==
    IF PatternMatcher(pattern[1]).ok
    THEN collect_target_candidates(disk, PatternMatcher(pattern[1]).v)
    ELSE << >>

\* execute_update with a filter: update_targeted_dependency up to the first
\* prompt or lookup.
StartTargeted ==
    /\ mode = "targeted" /\ pc = "start"
    /\ IF ~with_repositories(repositories).ok
       THEN /\ client' = "failed" /\ repositories' = repositories
            /\ End("error") /\ UNCHANGED targetVars
       ELSE /\ client' = "ready"
            /\ repositories' = with_repositories(repositories).v
            /\ entries' = entries /\ limit' = limit
            /\ IF ~PatternMatcher(pattern[1]).ok
               THEN /\ Step(disk, report, "done", cursor, None, FALSE, "error", decided)
                    /\ candidates' = candidates /\ selected' = selected
               ELSE IF Found = << >>
               THEN /\ Step(disk, NewReport, "done", cursor, None, FALSE, "ok", decided)
                    /\ candidates' = Found /\ selected' = selected
               ELSE IF Len(Found) = 1
               THEN /\ Step(disk, NewReport, "fetch_versions", cursor, None, FALSE,
                            outcome, decided)
                    /\ candidates' = << >> /\ selected' = Some(Found[1])
               ELSE /\ Step(disk, NewReport, "select_candidate", cursor, None, FALSE,
                            outcome, decided)
                    /\ candidates' = Found /\ selected' = selected
    /\ UNCHANGED <<fixedVars, fileVars, stdin, lookupVars>>

\* Vec::remove.
remove(v, i) == SubSeq(v, 1, i - 1) \o SubSeq(v, i + 1, Len(v))

\* prompt_candidate_selection, one line read from standard input.
SelectCandidate ==
    /\ pc = "select_candidate"
    /\ \E input \in SelectInputs :
         /\ ReadLine("candidate", input)
         /\ IF ~read_line(input).ok
            THEN End("error") /\ UNCHANGED <<candidates, selected>>
            ELSE IF candidate_choice(input, Len(candidates)).kind = "cancel"
            THEN End("cancelled") /\ UNCHANGED <<candidates, selected>>
            ELSE IF candidate_choice(input, Len(candidates)).kind = "chosen"
            THEN /\ selected' =
                        Some(candidates[candidate_choice(input, Len(candidates)).index])
                 /\ candidates' =
                        remove(candidates, candidate_choice(input, Len(candidates)).index)
                 /\ Step(doc, report, "fetch_versions", cursor, None, apply_all, outcome,
                         decided)
            ELSE /\ Step(doc, report, pc, cursor, None, apply_all, outcome, decided)
                 /\ UNCHANGED <<candidates, selected>>
    /\ UNCHANGED <<fixedVars, fileVars, entries, limit, repositories, client, lookupVars>>

\* The versions fetched for the candidate, then the version is chosen by
\* select_default_version or the prompt of prompt_version_selection is shown.
Fetched(r) ==
    IF ~r.ok THEN End("error") /\ UNCHANGED <<fileVars, entries, limit>>
    ELSE /\ entries' = version_entries(r.v, Target.current_version)
         /\ IF r.v = << >> THEN End("ok") /\ UNCHANGED <<fileVars, limit>>
            ELSE IF interactive
            THEN /\ limit' = min(Len(r.v), VERSION_PAGE_SIZE)
                 /\ Step(doc, report, "select_version", cursor, None, apply_all, outcome,
                         decided)
                 /\ UNCHANGED fileVars
            ELSE /\ limit' = limit
                 /\ IF select_default_version(version_entries(r.v, Target.current_version),
                                              stable_only) = None
                    THEN End("ok") /\ UNCHANGED fileVars
                    ELSE Chosen(select_default_version(
                                    version_entries(r.v, Target.current_version),
                                    stable_only)[1])

\* fetch_versions_for_candidate and what follows it up to the next prompt.
\* The portal's list of a plugin's versions comes from the portal client.
FetchVersions ==
    /\ pc = "fetch_versions"
    /\ IF Target.kind = "Plugin"
       THEN \E r \in PortalAvailable :
              /\ Asked("plugins", Target.name, available_plugin_request(Target.plugin_id), r)
              /\ Fetched(r)
       ELSE \E answers \in Answers :
              /\ Asked(SectionOf(Target), Target.name,
                       library_request(Target.group, Target.artifact),
                       fetch_available_versions(repositories, answers, Target.group).out)
              /\ Fetched(fetch_available_versions(repositories, answers, Target.group).out)
    /\ UNCHANGED <<fixedVars, stdin, candidates, selected, repositories, client>>

\* prompt_version_selection, one line read from standard input, and what
\* follows the selection.
SelectVersion ==
    /\ pc = "select_version"
    /\ \E input \in SelectInputs :
         /\ ReadLine("version", input)
         /\ limit' = IF read_line(input).ok THEN version_choice(input, entries, limit).limit
                      ELSE limit
         /\ IF ~read_line(input).ok
            THEN End("error") /\ UNCHANGED fileVars
            ELSE IF version_choice(input, entries, limit).kind = "cancel"
            THEN End("cancelled") /\ UNCHANGED fileVars
            ELSE IF version_choice(input, entries, limit).kind = "skip"
            THEN End("ok") /\ UNCHANGED fileVars
            ELSE IF version_choice(input, entries, limit).kind = "chosen"
            THEN Chosen(version_choice(input, entries, limit).value)
            ELSE /\ Step(doc, report, pc, cursor, None, apply_all, outcome, decided)
                 /\ UNCHANGED fileVars
    /\ UNCHANGED <<fixedVars, candidates, selected, entries, repositories, client, lookupVars>>

Next ==
    \/ StartUpdate \/ StartCheck \/ StartTargeted
    \/ UpdateVersion \/ UpdateLibrary \/ UpdatePlugin \/ Confirm \/ NextSection \/ WriteBack
    \/ CheckVersion \/ CheckLibrary \/ FinishCheck
    \/ SelectCandidate \/ FetchVersions \/ SelectVersion

Spec == RunInit /\ [][Next]_vars

(***************************************************************************)
(* The mutations of an entry's version applied to drawn items.             *)
(***************************************************************************)

\* A string alias, a library written as one string, inline tables and tables
\* with a version, with a reference and without one, and items that are no
\* string and no table.
ItemPool ==
    { Str(V_1_0_0),
      Str(format_coordinate(COM_EXAMPLE, OKIO, V_1_0_0)),
      Fields("inline", Some(COM_EXAMPLE \o << COLON >> \o STD), None, None, None, Str(V_1_0_0)),
      Fields("inline", None, Some(COM_EXAMPLE), Some(CORE), None, VersionRef("inline", KT)),
      Fields("table", Some(COM_EXAMPLE \o << COLON >> \o GRID), None, None, None, Str(V_1_0_0)),
      Fields("table", None, None, None, Some(COM_EXAMPLE \o B(<< ".", "j", "v", "m" >>)),
             Str(V_1_0_0)),
      Fields("table", None, None, None, Some(COM_EXAMPLE \o B(<< ".", "k", "s", "p" >>)),
             NoItem),
      OtherItem,
      NoItem }

NewVersions == { V_0_9_0, V_1_0_0, V_2_0_0 }

MutateCalls == { "update_version", "apply_library_version", "apply_plugin_version" }

MutateInit ==
    /\ call \in MutateCalls /\ result = Pending /\ stable_only = FALSE
    /\ ResolverIdle /\ RunIdle
    /\ vb = << >> /\ vc = << >> /\ list = << >>
    /\ va \in NewVersions
    /\ subject \in ItemPool

\* TomlUtils::update_version: what it returns and the item afterwards.
MutateUpdateVersion ==
    /\ call = "update_version" /\ ~result.done
    /\ result' = [done |-> TRUE,
                  returned |-> IF update_version(subject, va).changed THEN "true" ELSE "false",
                  item |-> update_version(subject, va).item]
    /\ UNCHANGED <<call, stable_only, versionVars, resolverVars, runVars>>

\* TargetedHandler::apply_library_version on the coordinate com.example:okio.
MutateLibrary ==
    /\ call = "apply_library_version" /\ ~result.done
    /\ result' = [done |-> TRUE,
                  returned |-> IF apply_library_version(subject, COM_EXAMPLE, OKIO, va).ok
                               THEN "Ok" ELSE "Err",
                  item |-> IF apply_library_version(subject, COM_EXAMPLE, OKIO, va).ok
                           THEN apply_library_version(subject, COM_EXAMPLE, OKIO, va).v
                           ELSE subject]
    /\ UNCHANGED <<call, stable_only, versionVars, resolverVars, runVars>>

\* TargetedHandler::apply_plugin_version.
MutatePlugin ==
    /\ call = "apply_plugin_version" /\ ~result.done
    /\ result' = [done |-> TRUE,
                  returned |-> IF apply_plugin_version(subject, va).ok THEN "Ok" ELSE "Err",
                  item |-> IF apply_plugin_version(subject, va).ok
                           THEN apply_plugin_version(subject, va).v
                           ELSE subject]
    /\ UNCHANGED <<call, stable_only, versionVars, resolverVars, runVars>>

MutateNext == MutateUpdateVersion \/ MutateLibrary \/ MutatePlugin

SpecMutate == MutateInit /\ [][MutateNext]_vars

(***************************************************************************)
(* The pattern matcher applied to drawn patterns and names.                *)
(***************************************************************************)

\* Patterns with and without '*' and '?', with characters the expression
\* syntax has a meaning for, with blanks around them, blank and empty.
GlobPool ==
    { B(<< "*" >>), B(<< "?" >>), B(<< "o", "k", "*", "p" >>),
      B(<< "o", "k", "h", "t", "t", "p" >>), B(<< "K", "?" >>), B(<< "k", ".", "t" >>),
      B(<< "a", "*", "b" >>), B(<< "(", "k", "+" >>), B(<< " ", "k", "t", " " >>),
      B(<< "*", "-", "*", "-", "*" >>), B(<< " " >>), << >> }

\* Names of entries: plain, in upper case, with a line feed in a quoted key.
NamePool ==
    { KT, B(<< "K", "T" >>), OKIO, B(<< "o", "k", "h", "t", "t", "p" >>),
      B(<< "o", "k", "a", "y" >>),
      B(<< "m", "y", "-", "o", "k", "h", "t", "t", "p", "-", "c", "l", "i", "e", "n", "t" >>),
      B(<< "k", "x", "t" >>), B(<< "k", ".", "t" >>), B(<< "(", "k", "+" >>),
      << 97, 10, 98 >>, << >> }

PatternInit ==
    /\ call = "matches" /\ result = Pending /\ stable_only = FALSE
    /\ va = << >> /\ vb = << >> /\ vc = << >> /\ list = << >>
    /\ ResolverIdle /\ RunIdle
    /\ subject \in [pattern : GlobPool, name : NamePool]

\* PatternMatcher::new followed by PatternMatcher::matches.
MatchName ==
    /\ call = "matches" /\ ~result.done
    /\ result' = [done |-> TRUE,
                  out |-> IF PatternMatcher(subject.pattern).ok
                          THEN Ok(matches(PatternMatcher(subject.pattern).v, subject.name))
                          ELSE Err("ProjectValidation")]
    /\ UNCHANGED <<call, stable_only, versionVars, resolverVars, runVars>>

PatternNext == MatchName

SpecPattern == PatternInit /\ [][PatternNext]_vars

(***************************************************************************)
(* The check command followed by a full update without interaction, on    *)
(* the same catalog file, the repositories answering both runs alike.     *)
(***************************************************************************)

\* Both runs begin from the same catalog file and the network answers every
\* lookup of both runs alike (subject).
CompareInit ==
    /\ call = "none" /\ result = Pending
    /\ va = << >> /\ vb = << >> /\ vc = << >> /\ list = << >>
    /\ subject \in [library : RunResponses, plugin : RunResponses]
    /\ client = "unbuilt" /\ responses = << >> /\ group = << >> /\ requests = << >>
    /\ repositories \in RunRepositories
    /\ stable_only \in BOOLEAN
    /\ disk \in Catalogs /\ before = disk /\ writes = 0
    /\ mode = "check" /\ interactive = FALSE /\ pattern = None /\ engine = "updater"
    /\ doc = << >> /\ report = << >> /\ pc = "start" /\ cursor = 0 /\ pending = None
    /\ apply_all = FALSE /\ outcome = "none" /\ last_answer = None /\ decided = { }
    /\ candidates = << >> /\ selected = None /\ entries = << >> /\ limit = 0
    /\ queries = << >> /\ reply = None /\ reads = 0

\* execute_check has returned its report; execute_update is run on the same
\* catalog file, by the updater or by the update handlers.
ThenUpdate ==
    /\ mode = "check" /\ pc = "done" /\ outcome = "ok"
    /\ result' = [done |-> TRUE, out |-> report]
    /\ mode' = "update" /\ client' = "unbuilt"
    /\ engine' \in { "updater", "handlers" }
    /\ Step(<< >>, << >>, "start", 0, None, FALSE, "none", { })
    /\ queries' = << >> /\ reply' = None
    /\ UNCHANGED <<call, versionVars, responses, group, requests, stable_only, interactive,
                   pattern, before, fileVars, stdin, targetVars, repositories>>

CompareNext ==
    \/ StartCheck \/ CheckVersion \/ CheckLibrary \/ FinishCheck \/ ThenUpdate
    \/ StartUpdate \/ UpdateVersion \/ UpdateLibrary \/ UpdatePlugin
    \/ NextSection \/ WriteBack

SpecCompare == CompareInit /\ [][CompareNext]_vars

(***************************************************************************)
(* The add command: one library or plugin is added to a catalog file.     *)
(***************************************************************************)

\* Coordinates handed to add_library: a new library of the group kt, a new
\* library of com.example, a library the catalogs have, a coordinate with
\* blanks, and two that are no coordinates.
LibraryCoordinates ==
    { B(<< "k", "t", ":", "n", "e", "w", ":" >>) \o V_2_0_0,
      COM_EXAMPLE \o B(<< ":", "n", "e", "w", "-", "l", "i", "b", ":" >>) \o V_2_0_0,
      COM_EXAMPLE \o << COLON >> \o OKIO \o << COLON >> \o V_2_0_0,
      B(<< " ", "k", "t", ".", "K", "t", ":", "x", " ", ":" >>) \o V_1_0_0,
      B(<< "k", "t", ":", "n", "e", "w" >>),
      B(<< "k", "t", ":", ":" >>) \o V_2_0_0 }

\* Coordinates handed to add_plugin: a new plugin kt, a new plugin with a
\* long id, a plugin the catalogs have, and one that is no coordinate.
PluginCoordinates ==
    { B(<< "k", "t", ":" >>) \o V_2_0_0,
      B(<< "o", "r", "g", ".", "a", ".", "b", "-", "c", ".", "d", ":" >>) \o V_2_0_0,
      COM_EXAMPLE \o B(<< ".", "j", "v", "m", ":" >>) \o V_2_0_0,
      COM_EXAMPLE \o B(<< ".", "l", "i", "n", "t", ":" >>) \o V_1_0_0,
      B(<< "k", "t" >>) }

\* The --alias option: absent, the name of an entry, a new name.
AliasOverrides == { None, Some(STD), Some(JVM), Some(B(<< "N", "e", "w" >>)) }

\* The --version-alias option: absent, an alias the catalogs have, in upper
\* case, one that is no string, a new one.
VersionAliasOverrides ==
    { None, Some(KT), Some(B(<< "K", "T" >>)), Some(B(<< "r", "i", "c", "h" >>)),
      Some(B(<< "n", "e", "w" >>)) }

EditorInit ==
    /\ result = Pending /\ stable_only = FALSE
    /\ va = << >> /\ vb = << >> /\ vc = << >> /\ list = << >>
    /\ ResolverIdle
    /\ \/ call = "add_library"
          /\ subject \in [coordinate : LibraryCoordinates, alias : AliasOverrides,
                          version_alias : VersionAliasOverrides]
       \/ call = "add_plugin"
          /\ subject \in [coordinate : PluginCoordinates, alias : AliasOverrides,
                          version_alias : VersionAliasOverrides]
    /\ mode = "add" /\ interactive = FALSE /\ pattern = None /\ engine = "none"
    /\ disk \in Catalogs /\ before = disk /\ writes = 0
    /\ doc = << >> /\ report = << >> /\ pc = "idle" /\ cursor = 0 /\ pending = None
    /\ apply_all = FALSE /\ outcome = "none" /\ last_answer = None /\ decided = { }
    /\ candidates = << >> /\ selected = None /\ entries = << >> /\ limit = 0
    /\ queries = << >> /\ reply = None /\ reads = 0

\* What no add changes.
editorFixed ==
    <<call, stable_only, versionVars, resolverVars, runInputs, doc, report, pc, cursor,
      pending, apply_all, outcome, stdin, decided, targetVars, lookupVars>>

\* The end of add_library and add_plugin: write_document when the add went
\* through, the error without a write otherwise.
Added(r) ==
    /\ result' = [done |-> TRUE, out |-> IF r.ok THEN Ok(TRUE) ELSE r]
    /\ IF r.ok THEN disk' = r.v /\ writes' = writes + 1 ELSE UNCHANGED fileVars
    /\ UNCHANGED editorFixed

AddLibrary ==
    /\ call = "add_library" /\ ~result.done
    /\ Added(add_library(disk, subject.coordinate, subject.alias, subject.version_alias))

AddPlugin ==
    /\ call = "add_plugin" /\ ~result.done
    /\ Added(add_plugin(disk, subject.coordinate, subject.alias, subject.version_alias))

EditorNext == AddLibrary \/ AddPlugin

SpecEditor == EditorInit /\ [][EditorNext]_vars

(***************************************************************************)
(* Claims about the version model.                                         *)
(***************************************************************************)

\* Ordering::reverse.
Reverse(o) == IF o = Less THEN Greater ELSE IF o = Greater THEN Less ELSE Equal

\* C6: the comparison of parsed versions is a strict total order consistent
\* with equality of the original text: cmp(a,b) is the reverse of cmp(b,a),
\* cmp(a,b) is Equal exactly when the texts are equal (so exactly one of a<b,
\* a=b, b<a holds), and a<b and b<c imply a<c.
C6_StrictTotalOrder ==
    (call = "cmp" /\ result.done) =>
        /\ result.ba = Reverse(result.ab)
        /\ (result.ab = Equal <=> va = vb)
        /\ result.aa = Equal
        /\ (result.ab = Less /\ result.bc = Less => result.ac = Less)

\* C7: is_upgrade is asymmetric and irreflexive: is_upgrade(a,b) implies
\* not is_upgrade(b,a), and is_upgrade(a,a) is false.
C7_UpgradeAsymmetric ==
    (call = "is_upgrade" /\ result.done) =>
        /\ (result.ab => ~result.ba)
        /\ ~result.aa

\* Two different versions were compared and one direction is an upgrade.
C7_Witness ==
    /\ call = "is_upgrade" /\ result.done
    /\ result.ab /\ ~result.ba /\ va # vb

\* The markers as the claim lists them.
ClaimMarkers ==
    { B(<< "a", "l", "p", "h", "a" >>), B(<< "b", "e", "t", "a" >>), B(<< "r", "c" >>),
      B(<< "s", "n", "a", "p", "s", "h", "o", "t" >>), B(<< "d", "e", "v" >>),
      B(<< "m", "1" >>), B(<< "m", "2" >>), B(<< "m", "3" >>), B(<< "e", "a", "p" >>),
      B(<< "p", "r", "e", "v", "i", "e", "w" >>), B(<< "c", "a", "n", "a", "r", "y" >>) }

\* C8: is_stable(v) is false exactly when the lower-cased text contains one of
\* the listed markers, or v is Semantic with a pre-release part, or v is Snapshot.
C8_StableExactly ==
    (call = "is_stable" /\ result.done) =>
        (~result.out <=>
            \/ \E m \in ClaimMarkers : contains(to_lowercase(va), m)
            \/ parse(va).parsed.type = "Semantic" /\ parse(va).parsed.v.pre # << >>
            \/ parse(va).parsed.type = "Snapshot")

\* A version whose marker shows only after lower-casing was found unstable.
C8_Witness ==
    /\ call = "is_stable" /\ result.done /\ ~result.out
    /\ \E m \in ClaimMarkers : contains(to_lowercase(va), m) /\ ~contains(va, m)

\* The entries get_latest may choose from.
Eligible(l, stable) ==
    { l[i] : i \in { j \in 1..Len(l) : ~stable \/ is_stable(parse(l[j])) } }

\* C9: get_latest returns none exactly when no entry is eligible, and otherwise
\* an eligible entry that no eligible entry compares greater than.
C9_LatestIsGreatest ==
    (call = "get_latest" /\ result.done) =>
        /\ (result.out = None <=> Eligible(list, stable_only) = {})
        /\ (result.out # None =>
               /\ result.out[1] \in Eligible(list, stable_only)
               /\ \A e \in Eligible(list, stable_only) :
                      cmp(parse(e), parse(result.out[1])) # Greater)

\* The value of a decimal numeral.
RECURSIVE Value(_)
Value(s) == IF s = << >> THEN 0 ELSE 10 * Value(SubSeq(s, 1, Len(s) - 1)) + (s[Len(s)] - 48)

\* The dot-separated segments of a version are all numerals.
NumericSegments(t) ==
    \A i \in 1..Len(split(t, 46)) : split(t, 46)[i] # << >> /\ AllDigits(split(t, 46)[i])

\* A version of three numeric segments, classified Semantic.
ThreeSegments(t) ==
    NumericSegments(t) /\ Len(split(t, 46)) = 3 /\ parse(t).parsed.type = "Semantic"

\* A version of another count of numeric segments, classified Numeric.
OtherSegments(t) ==
    NumericSegments(t) /\ Len(split(t, 46)) # 3 /\ parse(t).parsed.type = "Numeric"

\* The leading component of a version of numeric segments.
Leading(t) == Value(split(t, 46)[1])

\* C29: of a Semantic version (three numeric segments) and a Numeric version
\* (another count of numeric segments) whose leading components differ, the
\* one with the larger leading component compares greater.
C29_MixedFormatsByLeadingComponent ==
    (/\ call = "cmp" /\ result.done
     /\ ThreeSegments(va) /\ OtherSegments(vb) /\ Leading(va) # Leading(vb))
    => IF Leading(va) > Leading(vb) THEN result.ab = Greater /\ result.ba = Less
       ELSE result.ba = Greater /\ result.ab = Less

\* 5.0.0 was compared with 10.0 and found greater.
C29_Witness ==
    /\ call = "cmp" /\ result.done
    /\ va = B(<< "5", ".", "0", ".", "0" >>) /\ vb = B(<< "1", "0", ".", "0" >>)
    /\ result.ab = Greater /\ result.ba = Less

(***************************************************************************)
(* Properties of the repository resolver.                                  *)
(***************************************************************************)

Range(s) == { s[i] : i \in 1..Len(s) }

Lookup == call \in { "fetch_latest_version", "fetch_available_versions" }

\* Repository i applies to the group looked up: it has no filter, or one of
\* its patterns matches the group.
Applicable(i) ==
    \/ repositories[i].group_filters = << >>
    \/ matches_filters(group, repositories[i].group_filters)

\* The answer of repository i is a metadata document the resolver accepts.
Accepted(i) ==
    /\ responses[i].sent /\ responses[i].success /\ responses[i].readable
    /\ responses[i].len <= MAX_METADATA_BYTES
    /\ responses[i].wellformed

\* Repository i returns a non-empty version list.
Yields(i) == Accepted(i) /\ responses[i].versions # << >>

\* The applicable repositories that return a non-empty list, and those the
\* resolver has to ask: the applicable ones up to the first that does.
Yielding == { i \in 1..Len(repositories) : Applicable(i) /\ Yields(i) }
ToAsk ==
    { i \in 1..Len(repositories) :
        Applicable(i) /\ \A j \in Yielding : i <= j }

\* C3: a lookup asks the applicable repositories in the configured order up to
\* and including the first that returns a non-empty list and no other
\* repository, and its result is computed from that one list: the latest
\* version of it, or a list of its entries; without such a repository the
\* result is none, respectively the empty list.
C3_FirstYieldingRepositoryOnly ==
    Lookup =>
        /\ Range(requests) = ToAsk
        /\ \A i, j \in 1..Len(requests) : i < j => requests[i] < requests[j]
        /\ result.out.ok
        /\ IF Yielding = { }
           THEN result.out.v = << >>
           ELSE LET first == CHOOSE i \in Yielding : \A j \in Yielding : i <= j
                    versions == responses[first].versions
                IN IF call = "fetch_latest_version"
                   THEN result.out.v = get_latest(versions, stable_only)
                   ELSE /\ result.out.v # << >>
                        /\ Range(result.out.v) \subseteq Range(versions)

\* The first repository is passed over for the group by its filter, the second
\* one applies and its list decides, although the first one would have
\* answered with versions too.
C3_Witness ==
    /\ call = "fetch_latest_version"
    /\ Len(repositories) = 2
    /\ group = COM_EXAMPLE
    /\ ~Applicable(1) /\ repositories[1].group_filters # << >>
    /\ repositories[2].group_filters # << >> /\ Applicable(2)
    /\ Yields(1) /\ Yields(2) /\ responses[1] # responses[2]
    /\ requests = << 2 >>
    /\ result.out = Ok(get_latest(responses[2].versions, stable_only))

\* The ways one repository fails: the request cannot be sent, the status is
\* not a success, the body is above the 10 MB ceiling, the body is not
\* well-formed metadata.
RequestError(i) == ~responses[i].sent
ErrorStatus(i) == responses[i].sent /\ ~responses[i].success
AboveCeiling(i) ==
    /\ responses[i].sent /\ responses[i].success /\ responses[i].readable
    /\ responses[i].len > MAX_METADATA_BYTES
Malformed(i) ==
    /\ responses[i].sent /\ responses[i].success /\ responses[i].readable
    /\ responses[i].len <= MAX_METADATA_BYTES
    /\ ~responses[i].wellformed
Fails(i) == RequestError(i) \/ ErrorStatus(i) \/ AboveCeiling(i) \/ Malformed(i)

\* C4: a lookup never returns an error; after a repository that failed, the
\* next applicable repository is asked as well; and when every applicable
\* repository fails or has no versions, fetch_latest_version returns Ok(None)
\* and fetch_available_versions returns the empty list.
C4_FailuresAreNoVersions ==
    Lookup =>
        /\ result.out.ok
        /\ \A i \in Range(requests) :
              Fails(i) =>
                  \A j \in (i + 1)..Len(repositories) :
                      (Applicable(j) /\ \A k \in (i + 1)..(j - 1) : ~Applicable(k))
                          => j \in Range(requests)
        /\ (\A i \in 1..Len(repositories) :
                Applicable(i) => Fails(i) \/ responses[i].versions = << >>)
              => result.out = Ok(<< >>)

\* The first repository answers with a body above the ceiling, the second one
\* is asked and its versions are used.
C4_Witness ==
    /\ call = "fetch_latest_version"
    /\ Len(repositories) = 2
    /\ AboveCeiling(1)
    /\ requests = << 1, 2 >>
    /\ Yields(2)
    /\ result.out.ok /\ result.out.v # << >>

\* The host of a repository URL is loopback or private: localhost,
\* 127.0.0.0/8, 10.0.0.0/8, 172.16.0.0/12, 192.168.0.0/16, ::1, fc00::/7.
LocalHost(host) ==
    \/ host.kind = "domain"
       /\ to_lowercase(host.text) = B(<<"l","o","c","a","l","h","o","s","t">>)
    \/ host.kind = "ipv4" /\ ParseIpv4(host.text) # None
       /\ LET a == ParseIpv4(host.text)[1]
          IN \/ a[1] = 127
             \/ a[1] = 10
             \/ a[1] = 172 /\ a[2] \in 16..31
             \/ a[1] = 192 /\ a[2] = 168
    \/ host.kind = "ipv6" /\ ParseIpv6(host.text) # None
       /\ LET a == ParseIpv6(host.text)[1]
          IN \/ a = << 0, 0, 0, 0, 0, 0, 0, 1 >>
             \/ a[1] \in 64512..65023

\* The URL must be refused.
Forbidden(url) ==
    \/ ~url.parsed
    \/ url.scheme \notin { HTTP, HTTPS }
    \/ url.host # None /\ LocalHost(url.host[1])

\* C5: when a configured repository has a scheme other than http/https or a
\* loopback or private host, construction fails and no request is sent.
C5_LocalRepositoriesRefused ==
    (\E i \in 1..Len(repositories) : Forbidden(repositories[i].url)) =>
        /\ client # "ready"
        /\ requests = << >>
        /\ (call = "with_repositories" => ~result.out.ok)

\* Construction has refused a configuration whose second repository is the
\* forbidden one.
C5_Witness ==
    /\ call = "with_repositories" /\ client = "failed"
    /\ Len(repositories) = 2
    /\ ~Forbidden(repositories[1].url)
    /\ Forbidden(repositories[2].url)

\* C10: fetch_available_versions returns every distinct version string of the
\* first repository that yields versions, no text twice, from greatest to
\* least under the version order.
C10_DescendingDistinct ==
    (call = "fetch_available_versions" /\ Yielding # { }) =>
        LET first == CHOOSE i \in Yielding : \A j \in Yielding : i <= j
            out == result.out.v
        IN /\ Range(out) = Range(responses[first].versions)
           /\ \A i, j \in 1..Len(out) : i < j => out[i] # out[j]
           /\ \A i, j \in 1..Len(out) :
                 i < j => cmp(parse(out[i]), parse(out[j])) # Less

\* A list with a repeated entry has been returned.
C10_Witness ==
    /\ call = "fetch_available_versions" /\ Yielding # { }
    /\ LET first == CHOOSE i \in Yielding : \A j \in Yielding : i <= j
       IN Len(responses[first].versions) > Cardinality(Range(responses[first].versions))

\* C12: whenever the plugin index is absent, answers with an error status,
\* with a body above the ceiling or with malformed XML,
\* fetch_latest_plugin_version returns Ok(None).
C12_PluginFailuresAreNoVersions ==
    (call = "fetch_latest_plugin_version" /\ Fails(1)) => result.out = Ok(None)

\* The plugin index has answered with a body that is not metadata.
C12_Witness == call = "fetch_latest_plugin_version" /\ Malformed(1)

(***************************************************************************)
(* Claims about one run.                                                   *)
(***************************************************************************)

\* The line without its blanks and line end.
Word(answer) == trim(answer.text)

\* The line is the word q or the word quit.
SaysQuit(answer) == Word(answer) \in { Q, QUIT }

\* The run was cancelled and the catalog on disk is what it was.
CancelledUntouched == pc = "done" /\ outcome = "cancelled" /\ disk = before

\* C1 as stated: in an interactive run, whenever the user answers "q" or
\* "quit" at a confirmation or at a selection prompt, the run ends as
\* cancelled by the user and the catalog file holds what it held before the
\* run.
C1_QuitAtAnyPrompt ==
    (interactive /\ last_answer # None /\ SaysQuit(last_answer[1])) => CancelledUntouched

\* The answers that cancel: q or quit, in any letter case, at a confirmation;
\* q, in any letter case, at a selection.
Cancels(answer) ==
    IF answer.prompt = "confirm" THEN to_lowercase(Word(answer)) \in { Q, QUIT }
    ELSE to_lowercase(Word(answer)) = Q

\* C1: whenever the user answers q or quit at a confirmation, or q at the
\* selection of a candidate or of a version, the run ends as cancelled by the
\* user, nothing has been written, and the catalog file holds what it held
\* before the run, whatever was accepted in memory before.
C1_QuitCancelsUntouched ==
    (last_answer # None /\ Cancels(last_answer[1])) => (CancelledUntouched /\ writes = 0)

\* A full update cancelled at a confirmation after an earlier entry had been
\* accepted and changed in memory.
C1_Witness ==
    /\ pc = "done" /\ outcome = "cancelled" /\ mode = "update"
    /\ last_answer # None /\ last_answer[1].prompt = "confirm"
    /\ report # NewReport /\ doc # before /\ disk = before

\* The entries of the three sections of a document.
AllEntries(d) ==
    AllHandled("versions", Entries(d.versions))
    \cup AllHandled("libraries", Entries(d.libraries))
    \cup AllHandled("plugins", Entries(d.plugins))

\* The report records at least one change.
HasChanges(r) ==
    r.version_updates # { } \/ r.library_updates # { } \/ r.plugin_updates # { }

\* A run that updates has returned its report.
Returned == pc = "done" /\ outcome = "ok" /\ mode # "check"

\* C2 as stated: the file is written at most once, only after every entry of
\* the three sections has been handled, and exactly when the report is not
\* empty; a check never writes.
C2_WrittenAfterAllSections ==
    /\ writes <= 1
    /\ mode = "check" => writes = 0
    /\ writes = 1 => AllEntries(before) \subseteq decided
    /\ Returned => (writes = 1 <=> HasChanges(report))

\* C2: the file is written at most once, as the last step of the run and
\* with the document in memory: in a full update after every entry of the
\* three sections has been handled, in a targeted update after the version of
\* the selected candidate has been chosen; it is written exactly when the
\* report is not empty, and a check never writes.
C2_WrittenOnceAtTheEnd ==
    /\ writes <= 1
    /\ mode = "check" => writes = 0
    /\ writes = 1 =>
          /\ pc = "done" /\ outcome = "ok" /\ disk = doc
          /\ mode = "update" => AllEntries(before) \subseteq decided
          /\ mode = "targeted" =>
                /\ selected # None
                /\ Handled(SectionOf(Target), Target.name) \in decided
    /\ Returned => (writes = 1 <=> HasChanges(report))

\* An interactive full update that has written the catalog with an alias
\* changed and a library entry left as it was.
C2_Witness ==
    /\ mode = "update" /\ interactive /\ writes = 1 /\ disk # before
    /\ \E e \in AllEntries(before) :
          /\ e.section = "libraries"
          /\ \A u \in report.library_updates : u.name # e.key
    /\ report.version_updates # { }

(***************************************************************************)
(* The update handlers and their lookups.                                  *)
(***************************************************************************)

\* The pieces of a text joined by a separator byte.
RECURSIVE Join(_, _)
Join(pieces, c) ==
    IF Len(pieces) <= 1 THEN Flatten(pieces)
    ELSE pieces[1] \o << c >> \o Join(Tail(pieces), c)

\* The identifier of the plugin entry key of the catalog.
PluginIdOf(key) == Entries(before.plugins)[KeyIndex(Entries(before.plugins), key)].value.id[1]

\* The metadata path the plugin index keeps for the plugin p.
PluginMetadataPath(p) ==
    Join(split(p, DOT), SLASH) \o << SLASH >> \o p
        \o B(<< ".", "g", "r", "a", "d", "l", "e", ".", "p", "l", "u", "g", "i", "n", "/",
                "m", "a", "v", "e", "n", "-", "m", "e", "t", "a", "d", "a", "t", "a", ".",
                "x", "m", "l" >>)

\* The lookups sent so far for plugins.
PluginLookups == { i \in 1..Len(queries) : queries[i].section = "plugins" }

\* C11: every plugin lookup is for the coordinate (p, p.gradle.plugin) of the
\* plugin's identifier p and asks for the identifier's dotted path with
\* slashes, then p.gradle.plugin/maven-metadata.xml.
C11_PluginLookupCoordinate ==
    \A i \in PluginLookups :
        LET p == PluginIdOf(queries[i].key)
        IN /\ queries[i].request.resolver = "portal"
           /\ queries[i].request.group = p
           /\ queries[i].request.artifact = p \o B(<< ".", "g", "r", "a", "d", "l", "e", ".",
                                                    "p", "l", "u", "g", "i", "n" >>)
           /\ ends_with(queries[i].request.url, << SLASH >> \o PluginMetadataPath(p))

\* C11 happens: the plugin handler has looked a plugin up.
C11_Witness == engine = "handlers" /\ PluginLookups # { }

\* The table of a section of a document.
SectionEntries(d, section) ==
    IF section = "versions" THEN Entries(d.versions)
    ELSE IF section = "libraries" THEN Entries(d.libraries)
    ELSE Entries(d.plugins)

\* The value a document holds for an entry.
ValueOf(d, section, key) ==
    SectionEntries(d, section)[KeyIndex(SectionEntries(d, section), key)].value

\* The updates the report holds for a section.
UpdatesOf(r, section) ==
    IF section = "versions" THEN r.version_updates
    ELSE IF section = "libraries" THEN r.library_updates
    ELSE r.plugin_updates

\* The report has an update for the entry.
Reported(section, key) == \E u \in UpdatesOf(report, section) : u.name = key

\* The entry the latest lookup was for.
Asking == queries[Len(queries)]

\* The latest lookup failed: the resolver returned an error or no version.
LookupFailed == reply # None /\ (~reply[1].ok \/ reply[1].v = None)

\* C13: in a full update, once the lookup for an entry has failed, the entry
\* holds what it held and is not in the report, the run does not end with an
\* error, and a run that returns has handled every entry of the three
\* sections.
C13_LookupFailureSkipsEntry ==
    (mode = "update" /\ LookupFailed) =>
        /\ ValueOf(doc, Asking.section, Asking.key) = ValueOf(before, Asking.section, Asking.key)
        /\ ~Reported(Asking.section, Asking.key)
        /\ outcome # "error"
        /\ (pc = "done" /\ outcome = "ok") => AllEntries(before) \subseteq decided

\* The lookup of a plugin has failed with an error while a later plugin was
\* still to be handled.
C13_Witness ==
    /\ mode = "update" /\ LookupFailed /\ ~reply[1].ok
    /\ Asking.section = "plugins"
    /\ cursor < Len(Entries(before.plugins))

\* The version of the entry is a reference to an alias.
VersionIsRef(value) ==
    value.kind \in { "inline", "table" } /\ value.version.kind \in { "inline", "table" }

\* The library and plugin entries of the catalog whose version is a reference.
ReferenceEntries ==
    { e \in AllEntries(before) :
        /\ e.section \in { "libraries", "plugins" }
        /\ VersionIsRef(ValueOf(before, e.section, e.key)) }

\* C14: a library or plugin entry whose version is a reference is never
\* looked up, never put to the user, never changed in memory or on disk and
\* never reported.
C14_ReferencesAreLeftAlone ==
    \A e \in ReferenceEntries :
        /\ \A i \in 1..Len(queries) :
              ~(queries[i].section = e.section /\ queries[i].key = e.key)
        /\ pending # None => ~(pending[1].section = e.section /\ pending[1].key = e.key)
        /\ doc # << >> => ValueOf(doc, e.section, e.key) = ValueOf(before, e.section, e.key)
        /\ ValueOf(disk, e.section, e.key) = ValueOf(before, e.section, e.key)
        /\ ~(report # << >> /\ Reported(e.section, e.key))

\* The handlers have gone through a catalog with a library and a plugin whose
\* versions are references, and have written other changes.
C14_Witness ==
    /\ engine = "handlers" /\ pc = "done" /\ writes = 1
    /\ \E e \in ReferenceEntries : e.section = "libraries"
    /\ \E e \in ReferenceEntries : e.section = "plugins"
    /\ report.library_updates # { } /\ report.plugin_updates # { }

\* The version of a library is a reference to the alias.
RefersTo(value, alias) == VersionIsRef(value) /\ value.version.ref = Some(alias)

\* The positions of the libraries of the catalog that refer to the alias.
Referring(alias) ==
    { i \in 1..Len(Entries(before.libraries)) :
        RefersTo(Entries(before.libraries)[i].value, alias) }

\* The coordinate a library in table form is written with: its module
\* "group:artifact", else its group and name.
WrittenCoordinate(value) ==
    IF value.module # None
    THEN IF Len(split(value.module[1], COLON)) \in { 2, 3 }
         THEN Some(<< split(value.module[1], COLON)[1], split(value.module[1], COLON)[2] >>)
         ELSE None
    ELSE IF value.group # None /\ value.name # None
    THEN Some(<< value.group[1], value.name[1] >>)
    ELSE None

\* The positions of the referring libraries a coordinate can be read from.
ReferringWithCoordinate(alias) ==
    { i \in Referring(alias) : WrittenCoordinate(Entries(before.libraries)[i].value) # None }

\* The lookup has the coordinate of the first library among the positions.
AsksFirstOf(request, positions) ==
    /\ positions # { }
    /\ WrittenCoordinate(
           Entries(before.libraries)[CHOOSE i \in positions : \A j \in positions : i <= j].value)
         = Some(<< request.group, request.artifact >>)

\* The aliases of the catalog.
Aliases == { Entries(before.versions)[i].key : i \in 1..Len(Entries(before.versions)) }

\* The alias is never looked up, never put to the user and never changed.
AliasLeftAlone(alias) ==
    /\ \A i \in 1..Len(queries) : ~(queries[i].section = "versions" /\ queries[i].key = alias)
    /\ pending # None => ~(pending[1].section = "versions" /\ pending[1].key = alias)
    /\ doc # << >> => ValueOf(doc, "versions", alias) = ValueOf(before, "versions", alias)
    /\ ValueOf(disk, "versions", alias) = ValueOf(before, "versions", alias)

AliasUpdated(alias) ==
    /\ doc # << >>
    /\ KeyIndex(Entries(doc.versions), alias) # 0
    /\ ValueOf(doc', "versions", alias) # ValueOf(doc, "versions", alias)

\* The step changes nothing of the document but the value of the alias, which
\* becomes a string, and adds to the report one update under the alias name,
\* from the old value to the new one.
OnlyAliasChanged(alias) ==
    /\ doc'.libraries = doc.libraries
    /\ doc'.plugins = doc.plugins
    /\ Len(Entries(doc'.versions)) = Len(Entries(doc.versions))
    /\ \A i \in 1..Len(Entries(doc.versions)) :
          /\ Entries(doc'.versions)[i].key = Entries(doc.versions)[i].key
          /\ Entries(doc.versions)[i].key # alias
                => Entries(doc'.versions)[i].value = Entries(doc.versions)[i].value
    /\ ValueOf(doc', "versions", alias).kind = "str"
    /\ \A i \in Referring(alias) : RefersTo(Entries(doc'.libraries)[i].value, alias)
    /\ report'.library_updates = report.library_updates
    /\ report'.plugin_updates = report.plugin_updates
    /\ { u \in report'.version_updates : u.name = alias }
         = { [name |-> alias, old |-> ValueOf(doc, "versions", alias).text,
              new |-> ValueOf(doc', "versions", alias).text] }
    /\ { u \in report'.version_updates : u.name # alias }
         = { u \in report.version_updates : u.name # alias }
    /\ \A i \in Referring(alias) :
          \A u \in report'.library_updates : u.name # Entries(before.libraries)[i].key

\* C16: a step that updates an alias several libraries refer to changes
\* nothing of the document but the alias's value in the versions section;
\* every referring library still refers to the alias, and the report gains
\* one entry under the alias name and none for those libraries.
C16_OnlyTheAliasChanges ==
    [][\A alias \in Aliases :
          (Cardinality(Referring(alias)) > 1 /\ AliasUpdated(alias)) => OnlyAliasChanged(alias)]_vars

\* The version handler has updated an alias that several libraries refer to.
C16_Witness ==
    /\ engine = "handlers" /\ doc # << >> /\ report # << >>
    /\ \E u \in report.version_updates :
          /\ Cardinality(Referring(u.name)) > 1
          /\ ValueOf(doc, "versions", u.name) = Str(u.new)
          /\ ValueOf(before, "versions", u.name) = Str(u.old)
          /\ u.old # u.new

\* The positions of the colons of a text.
Colons(s) == { i \in 1..Len(s) : s[i] = 58 }

\* "g:a:v" and "g:a:w": three parts each, the first two the same.
SameCoordinateString(old, new) ==
    /\ Cardinality(Colons(old)) = 2 /\ Cardinality(Colons(new)) = 2
    /\ \E k \in Colons(old) :
          /\ \A j \in Colons(old) : j <= k
          /\ k <= Len(new)
          /\ SubSeq(new, 1, k) = SubSeq(old, 1, k)

\* The entry after the mutation has the shape and the coordinate it had: a
\* string "g:a:v" is a string "g:a:w", a table differs in its version field
\* only, which is a string.
KeepsShapeAndCoordinate(old, new) ==
    /\ new.kind = old.kind
    /\ old.kind \in { "str", "inline", "table" }
    /\ old.kind = "str" => SameCoordinateString(old.text, new.text)
    /\ old.kind # "str" =>
          /\ new.version.kind = "str"
          /\ [new EXCEPT !.version = old.version] = old

\* The step changes the library at position i and nothing else of the
\* document.
OnlyLibraryChanged(i) ==
    /\ doc'.versions = doc.versions
    /\ doc'.plugins = doc.plugins
    /\ Len(Entries(doc'.libraries)) = Len(Entries(doc.libraries))
    /\ \A j \in 1..Len(Entries(doc.libraries)) :
          /\ Entries(doc'.libraries)[j].key = Entries(doc.libraries)[j].key
          /\ j # i => Entries(doc'.libraries)[j].value = Entries(doc.libraries)[j].value
    /\ KeepsShapeAndCoordinate(Entries(doc.libraries)[i].value, Entries(doc'.libraries)[i].value)

\* Every library of the document that either implementation would mutate is
\* left as it is, and the document with it, when the version written is the
\* one it has.
OwnVersionIsNoChange ==
    \A i \in 1..Len(Entries(doc.libraries)) :
       LET e == Entries(doc.libraries)[i]
       IN /\ library_query(e.value) # None =>
                apply(doc, Proposal("libraries", e.key, library_query(e.value)[1].current,
                                    library_query(e.value)[1].current,
                                    library_query(e.value)[1].group,
                                    library_query(e.value)[1].artifact)) = doc
          /\ handler_library_query(e.value) # None =>
                handler_apply(doc, Proposal("libraries", e.key,
                                            handler_library_query(e.value)[1].current,
                                            handler_library_query(e.value)[1].current,
                                            handler_library_query(e.value)[1].group,
                                            handler_library_query(e.value)[1].artifact)) = doc

MutatedUnrecognized ==
    /\ call \in MutateCalls /\ result.done
    /\ subject.kind \notin { "str", "inline", "table" }

AnswersAll ==
    /\ pc = "confirm" /\ reads' = reads + 1 /\ last_answer' # None
    /\ to_lowercase(Word(last_answer'[1])) \in { B(<< "a" >>), B(<< "a", "l", "l" >>) }

\* The version new is recorded for the entry after the step and the entry is
\* changed by it.
AcceptedInStep(section, key, new) ==
    /\ \E u \in UpdatesOf(report', section) : u.name = key /\ u.new = new
    /\ ValueOf(doc', section, key) # ValueOf(doc, section, key)

\* The text after the last colon.
LastPart(s) ==
    IF Colons(s) = { } THEN s
    ELSE SubSeq(s, (CHOOSE k \in Colons(s) : \A j \in Colons(s) : j <= k) + 1, Len(s))

\* The version an entry of the document has.
CurrentOf(section, key) ==
    IF ValueOf(doc, section, key).kind = "str"
    THEN IF section = "versions" THEN ValueOf(doc, section, key).text
         ELSE LastPart(ValueOf(doc, section, key).text)
    ELSE ValueOf(doc, section, key).version.text

\* The step sends a lookup and the resolver returns a version newer than the
\* one the entry has.
FindsUpgrade ==
    /\ Len(queries') = Len(queries) + 1
    /\ reply'[1].ok /\ reply'[1].v # None
    /\ reply'[1].v[1] # CurrentOf(queries'[Len(queries')].section, queries'[Len(queries')].key)
    /\ is_newer(reply'[1].v[1],
                CurrentOf(queries'[Len(queries')].section, queries'[Len(queries')].key))

\* C19: apply-all is false when a run starts and is never reset once set; the
\* confirmation answered "a" or "all" accepts its update and sets it; from
\* then on no step reads input or raises a prompt, and every upgrade found,
\* in whatever section, is accepted in the step that finds it.
C19_ApplyAllSticks ==
    /\ [](pc = "start" => ~apply_all)
    /\ [][apply_all => apply_all']_vars
    /\ [][AnswersAll =>
            /\ apply_all' /\ pc' # "confirm" /\ pending' = None
            /\ AcceptedInStep(pending[1].section, pending[1].key, pending[1].new)]_vars
    /\ [][apply_all =>
            /\ reads' = reads /\ pc' # "confirm" /\ pending' = None
            /\ FindsUpgrade =>
                  AcceptedInStep(queries'[Len(queries')].section, queries'[Len(queries')].key,
                                 reply'[1].v[1])]_vars

\* After the one line "a" was read, updates of two sections have been
\* accepted.
C19_Witness ==
    /\ interactive /\ apply_all /\ reads = 1
    /\ report.version_updates # { }
    /\ report.library_updates # { } \/ report.plugin_updates # { }

\* The line, trimmed and in lower case, is one of the answers a confirmation
\* knows.
Recognized(answer) ==
    to_lowercase(Word(answer)) \in
        { << >>, B(<< "y" >>), B(<< "y", "e", "s" >>), B(<< "n" >>), B(<< "n", "o" >>),
          B(<< "a" >>), B(<< "a", "l", "l" >>), Q, QUIT }

\* The step reads a line at a confirmation.
ConfirmReads == pc = "confirm" /\ reads' = reads + 1 /\ last_answer' # None

\* C20: without apply-all, a confirmation is left only by a step that reads
\* a recognized answer; a step that reads anything else changes nothing and
\* the confirmation is asked again; a step that reads a recognized answer
\* leaves it.
C20_ReturnsOnRecognizedOnly ==
    /\ [][(pc = "confirm" /\ pc' # "confirm")
             => (ConfirmReads /\ Recognized(last_answer'[1]))]_vars
    /\ [][(ConfirmReads /\ ~Recognized(last_answer'[1]))
             => /\ pc' = "confirm"
                /\ UNCHANGED <<doc, report, disk, writes, pending, apply_all, cursor, outcome,
                               decided, queries, reply>>]_vars
    /\ [][(ConfirmReads /\ Recognized(last_answer'[1])) => pc' # "confirm"]_vars

\* A run has ended with an error at a confirmation upon a line that is none
\* of the recognized answers.
C20_Witness ==
    /\ pc = "done" /\ outcome = "error" /\ interactive /\ ~apply_all
    /\ last_answer # None /\ last_answer[1].prompt = "confirm"
    /\ ~Recognized(last_answer[1])

\* The updates of all three sections of the report.
AllUpdates == report.version_updates \cup report.library_updates \cup report.plugin_updates

\* C25: in a full update and in a check, every update the report holds has a
\* new version that differs from the old one and is greater than it under
\* the version order.
C25_EveryChangeIsUpgrade ==
    (mode \in { "update", "check" } /\ report # << >>) =>
        \A u \in AllUpdates :
            u.new # u.old /\ cmp(parse(u.new), parse(u.old)) = Greater

\* A full update has written a library version older than the one the entry
\* had.
C25_Witness ==
    /\ mode = "update" /\ engine = "updater" /\ pc = "done" /\ writes = 1
    /\ \E u \in report.library_updates : cmp(parse(u.new), parse(u.old)) = Less

\* A full update with interaction is under way in one of its sections or at
\* a confirmation.
InteractiveUpdate ==
    mode = "update" /\ interactive /\ pc \in { "versions", "libraries", "plugins", "confirm" }

\* The line, trimmed and in lower case, accepts: y, yes, nothing, a or all.
SaysYes(answer) ==
    to_lowercase(Word(answer)) \in
        { << >>, B(<< "y" >>), B(<< "y", "e", "s" >>), B(<< "a" >>), B(<< "a", "l", "l" >>) }

\* The line, trimmed and in lower case, is n or no.
SaysNo(answer) == to_lowercase(Word(answer)) \in { B(<< "n" >>), B(<< "n", "o" >>) }

\* The step leaves every entry but the given one as it is, in the document
\* and in the report.
TouchesOnly(section, key) ==
    \A e \in AllEntries(doc) :
        e # Handled(section, key) =>
            /\ ValueOf(doc', e.section, e.key) = ValueOf(doc, e.section, e.key)
            /\ UpdatesOf(report', e.section) \ UpdatesOf(report, e.section) =
                   { u \in UpdatesOf(report', e.section) \ UpdatesOf(report, e.section) :
                       e.section = section /\ u.name = key }

\* The step changes the document in memory or the report.
Mutates == doc' # doc \/ report' # report

\* The step is the accepted confirmation of the entry that is mutated.
ConfirmedInStep ==
    /\ pc = "confirm" /\ ConfirmReads /\ SaysYes(last_answer'[1])
    /\ TouchesOnly(pending[1].section, pending[1].key)

\* The step is taken with apply-all set and mutates the entry it looked up.
AppliedInStep ==
    /\ pc # "confirm" /\ apply_all /\ Len(queries') = Len(queries) + 1
    /\ TouchesOnly(queries'[Len(queries')].section, queries'[Len(queries')].key)

\* The entry of the three sections that the report does not name has the
\* value it had when the run began.
UnreportedUntouched ==
    \A e \in AllEntries(before) :
        ~Reported(e.section, e.key) =>
            ValueOf(doc, e.section, e.key) = ValueOf(before, e.section, e.key)

\* C27: in a full update with interaction, a step mutates an entry and
\* records it only when it is the confirmation of that same entry and the
\* answer accepts (y, yes, nothing, a, all), or when apply-all is already
\* set; the answer n or no leaves the document and the report as they are
\* and the run goes on with the next entry of the section; an entry the
\* report does not name keeps its value; and a confirmation is raised only
\* for an entry not decided before and leaves the entry decided.
C27_MutatedOnlyWhenAccepted ==
    /\ [][(InteractiveUpdate /\ Mutates) => (ConfirmedInStep \/ AppliedInStep)]_vars
    /\ [][(InteractiveUpdate /\ ConfirmReads /\ SaysNo(last_answer'[1]))
             => /\ doc' = doc /\ report' = report /\ outcome' = outcome
                /\ pc' = pending[1].section /\ cursor' = cursor + 1 /\ pending' = None]_vars
    /\ []((InteractiveUpdate /\ report # << >>) => UnreportedUntouched)
    /\ [][(InteractiveUpdate /\ pc # "confirm" /\ pc' = "confirm")
             => Handled(pending'[1].section, pending'[1].key) \notin decided]_vars
    /\ [][(InteractiveUpdate /\ pc = "confirm" /\ pc' \notin { "confirm", "done" })
             => Handled(pending[1].section, pending[1].key) \in decided']_vars

\* One entry was declined with "n" and a later entry accepted: the run has
\* written the file, the declined entry as it was and not in the report.
C27_Witness ==
    /\ mode = "update" /\ interactive /\ ~apply_all /\ pc = "done" /\ writes = 1
    /\ reads = 2 /\ last_answer # None /\ SaysYes(last_answer[1])
    /\ \E e \in decided :
         /\ ~Reported(e.section, e.key)
         /\ Len(queries) >= 2 /\ queries[1].section = e.section /\ queries[1].key = e.key
         /\ \E u \in AllUpdates : u.name # e.key

(***************************************************************************)
(* Claims about the pattern matcher and the targeted update.               *)
(***************************************************************************)

\* The glob a pattern stands for: itself when it holds '*' or '?', else
\* wrapped in '*'.
GlobOf(p) ==
    IF \E i \in 1..Len(p) : p[i] \in { 42, 63 } THEN p ELSE << 42 >> \o p \o << 42 >>

\* The whole of s matches the glob g: '*' any run of characters, '?' one
\* character, any other character itself.
RECURSIVE GlobMatch(_, _)
GlobMatch(g, s) ==
    IF g = << >> THEN s = << >>
    ELSE IF g[1] = 42 THEN GlobMatch(Tail(g), s) \/ (s # << >> /\ GlobMatch(g, Tail(s)))
    ELSE /\ s # << >>
         /\ g[1] = 63 \/ g[1] = s[1]
         /\ GlobMatch(Tail(g), Tail(s))

\* The pattern is empty or holds blanks only.
Blank(p) == \A i \in 1..Len(p) : p[i] = 32

\* C21: a blank or empty pattern is refused; any other pattern accepts a name
\* exactly when the whole name matches the pattern's glob, letters compared
\* without regard to case.
C21_GlobMatchesWholeName ==
    (call = "matches" /\ result.done) =>
        IF Blank(subject.pattern) THEN ~result.out.ok
        ELSE result.out = Ok(GlobMatch(to_lowercase(GlobOf(subject.pattern)),
                                       to_lowercase(subject.name)))

\* The pattern "*" has been matched against a name that holds a line feed
\* and has not accepted it.
C21_Witness ==
    /\ call = "matches" /\ result.done
    /\ subject.pattern = << 42 >>
    /\ \E i \in 1..Len(subject.name) : subject.name[i] = 10
    /\ result.out = Ok(FALSE)

\* Every update the report holds.
Recorded(r) == r.version_updates \cup r.library_updates \cup r.plugin_updates

\* a is greater than b under the version order.
StrictlyGreater(a, b) == cmp(parse(a), parse(b)) = Greater

\* A targeted update without interaction has fetched the versions of its
\* candidate and returned.
AutoSelected ==
    /\ mode = "targeted" /\ ~interactive /\ pc = "done" /\ outcome = "ok"
    /\ selected # None /\ entries # << >>

\* No version fetched is greater than the one the candidate has.
NothingGreater ==
    \A i \in 1..Len(entries) : ~StrictlyGreater(entries[i].value, Target.current_version)

\* C22: the version a targeted update selects by itself is greater than the
\* candidate's current version; when no version fetched is greater, the
\* report is empty and neither the document nor the file has changed.
C22_AutoSelectionIsUpgrade ==
    AutoSelected =>
        /\ \A u \in Recorded(report) : StrictlyGreater(u.new, u.old)
        /\ NothingGreater => (report = NewReport /\ doc = before /\ disk = before)

\* A targeted update without interaction has written a version older than
\* the one the candidate had.
C22_Witness ==
    /\ AutoSelected /\ writes = 1 /\ disk # before
    /\ \E u \in Recorded(report) : StrictlyGreater(u.old, u.new)

\* No version fetched is stable and other than the current one.
NoOtherStable ==
    \A i \in 1..Len(entries) :
        ~is_stable(parse(entries[i].value)) \/ entries[i].value = Target.current_version

\* C23: with stable_only set, the version a targeted update selects by itself
\* is stable; when no version fetched is stable and other than the current
\* one, nothing is selected and the report is empty.
C23_AutoSelectionIsStable ==
    (AutoSelected /\ stable_only) =>
        /\ \A u \in Recorded(report) : is_stable(parse(u.new))
        /\ NoOtherStable => (report = NewReport /\ disk = before)

\* With stable_only set, a targeted update without interaction has written a
\* pre-release.
C23_Witness ==
    /\ AutoSelected /\ stable_only /\ writes = 1
    /\ \E u \in Recorded(report) : ~is_stable(parse(u.new)) /\ StrictlyGreater(u.new, u.old)

\* The decimal numeral of a small number.
Numeral(n) == IF n < 10 THEN << 48 + n >> ELSE << 48 + (n \div 10), 48 + (n % 10) >>

\* The step reads a line at the selection of a version.
VersionRead == pc = "select_version" /\ reads' = reads + 1 /\ last_answer' # None

\* The line read is the number of the entry shown that is the current
\* version.
ChoosesCurrent ==
    /\ VersionRead
    /\ \E i \in 1..limit :
          /\ Numeral(i) = to_lowercase(Word(last_answer'[1]))
          /\ entries[i].value = Target.current_version

\* The line read is "s".
Skips == VersionRead /\ to_lowercase(Word(last_answer'[1])) = B(<< "s" >>)

\* The step ends the run as a success with an empty report, the document and
\* the file as they were, nothing written.
EndsEmpty ==
    /\ pc' = "done" /\ outcome' = "ok" /\ report' = NewReport
    /\ doc' = before /\ disk' = before /\ writes' = 0

\* C24 as stated: in a targeted update, choosing the current version or
\* answering "s" at the selection of a version ends the run as a success
\* with an empty report, no change of the document and no write.
C24_CurrentOrSkipEndsEmpty == [][(ChoosesCurrent \/ Skips) => EndsEmpty]_vars

\* C24: answering "s" at the selection of a version ends the run as a success
\* with an empty report, no change of the document and no write; choosing
\* the current version changes nothing and the selection is asked again.
C24_SkipEndsEmptyCurrentAsksAgain ==
    /\ [][Skips => EndsEmpty]_vars
    /\ [][ChoosesCurrent =>
            /\ pc' = "select_version" /\ outcome' = outcome
            /\ UNCHANGED <<doc, report, disk, writes, entries, limit, selected>>]_vars

\* The current version has been chosen at the selection of a version and the
\* selection is asked again.
C24_Witness ==
    /\ mode = "targeted" /\ pc = "select_version" /\ doc = before /\ writes = 0
    /\ last_answer # None /\ last_answer[1].prompt = "version"
    /\ \E i \in 1..limit :
          /\ Numeral(i) = to_lowercase(Word(last_answer[1]))
          /\ entries[i].value = Target.current_version

(***************************************************************************)
(* Claims about the check and the full update taken together.             *)
(***************************************************************************)

\* The check has returned its report and the full update that followed on
\* the same catalog file has returned too.
BothReturned == mode = "update" /\ pc = "done" /\ outcome = "ok" /\ result.done

\* The changes of a report, each with its section.
ChangesOf(r) ==
    UNION { { << section, u.name, u.old, u.new >> : u \in UpdatesOf(r, section) } :
              section \in { "versions", "libraries", "plugins" } }

\* C26: on the same document and the same repository responses, the check
\* reports exactly the changes (section, name, old, new) that a full update
\* without interaction applies and reports.
C26_CheckReportsWhatUpdateApplies ==
    BothReturned => ChangesOf(result.out) = ChangesOf(report)

\* A full update has applied and reported a plugin change that the check on
\* the same file and the same answers did not report.
C26_Witness ==
    /\ BothReturned /\ writes = 1
    /\ \E u \in report.plugin_updates : u \notin result.out.plugin_updates

\* A full update without interaction has returned.
UpdateReturned == mode = "update" /\ ~interactive /\ pc = "done" /\ outcome = "ok"

\* The plugin entry is an inline table or a standard table with an id and a
\* literal version.
PluginWithLiteral(value) ==
    /\ value.kind \in { "inline", "table" }
    /\ value.id # None
    /\ value.version.kind = "str"

\* What the resolver returns for a plugin: a latest version that is an
\* upgrade of current.
PortalUpgrade(current) ==
    /\ fetch_latest_plugin_version(subject.plugin, stable_only).ok
    /\ fetch_latest_plugin_version(subject.plugin, stable_only).v # None
    /\ StrictlyGreater(fetch_latest_plugin_version(subject.plugin, stable_only).v[1], current)

\* The plugin entry has the latest version in the file and the report names
\* the change under the plugin's name.
PluginReplaced(key, current) ==
    /\ ValueOf(disk, "plugins", key).version.kind = "str"
    /\ ValueOf(disk, "plugins", key).version.text =
           fetch_latest_plugin_version(subject.plugin, stable_only).v[1]
    /\ \E u \in report.plugin_updates :
         /\ u.name = key /\ u.old = current
         /\ u.new = fetch_latest_plugin_version(subject.plugin, stable_only).v[1]

\* C28: a plugin entry is treated the same whether it is an inline table or
\* a standard table: after a full update in which every confirmation is
\* granted, every plugin entry with an id and a literal version for which the
\* resolver returns an upgrade has that version and is recorded under its
\* name.
C28_PluginShapesAlike ==
    UpdateReturned =>
        \A i \in 1..Len(Entries(before.plugins)) :
            (/\ PluginWithLiteral(Entries(before.plugins)[i].value)
             /\ PortalUpgrade(Entries(before.plugins)[i].value.version.text))
            => PluginReplaced(Entries(before.plugins)[i].key,
                              Entries(before.plugins)[i].value.version.text)

\* A full update has returned, the resolver has an upgrade for a plugin
\* written as an inline table, and the plugin has the version it had.
C28_Witness ==
    /\ UpdateReturned
    /\ \E i \in 1..Len(Entries(before.plugins)) :
         /\ Entries(before.plugins)[i].value.kind = "inline"
         /\ PluginWithLiteral(Entries(before.plugins)[i].value)
         /\ PortalUpgrade(Entries(before.plugins)[i].value.version.text)
         /\ ValueOf(disk, "plugins", Entries(before.plugins)[i].key) =
                Entries(before.plugins)[i].value

(***************************************************************************)
(* Claims about the catalog editor.                                        *)
(***************************************************************************)

\* add_library or add_plugin has returned.
AddReturned == call \in { "add_library", "add_plugin" } /\ result.done

\* The section the added entry goes to, and the other one.
AddedTo == IF call = "add_library" THEN "libraries" ELSE "plugins"
NotAddedTo == IF call = "add_library" THEN "plugins" ELSE "libraries"

\* The names of a section of a document.
KeysOf(d, section) ==
    { SectionEntries(d, section)[i].key : i \in 1..Len(SectionEntries(d, section)) }

\* The names the file has in a section and did not have before.
NewKeys(section) == KeysOf(disk, section) \ KeysOf(before, section)

\* Every entry the section had is in the file with the value it had.
SectionKept(section) ==
    \A k \in KeysOf(before, section) :
        /\ k \in KeysOf(disk, section)
        /\ ValueOf(disk, section, k) = ValueOf(before, section, k)

\* The alias the entry takes its version from, if it names one.
RefOf(value) ==
    IF value.kind \in { "inline", "table" } /\ value.version.kind \in { "inline", "table" }
    THEN value.version.ref
    ELSE None

\* What the alias an entry names holds in a document.
ResolvedIn(d, value) ==
    IF RefOf(value) # None /\ RefOf(value)[1] \in KeysOf(d, "versions")
    THEN Some(ValueOf(d, "versions", RefOf(value)[1]))
    ELSE None

\* Every entry the section had resolves to the version it resolved to.
ResolvesAsBefore(section) ==
    \A k \in KeysOf(before, section) :
        ResolvedIn(disk, ValueOf(before, section, k)) =
            ResolvedIn(before, ValueOf(before, section, k))

\* C30: an add that goes through adds exactly one entry, to its own section,
\* and at most one version alias; every alias, library and plugin the file
\* had has the value it had, so every entry resolves to the version it
\* resolved to; an add that is rejected does not write the file.
C30_AddLeavesTheRestAlone ==
    /\ (AddReturned /\ result.out.ok) =>
           /\ Cardinality(NewKeys(AddedTo)) = 1 /\ NewKeys(NotAddedTo) = { }
           /\ Cardinality(NewKeys("versions")) <= 1
           /\ SectionKept("versions") /\ SectionKept("libraries") /\ SectionKept("plugins")
           /\ ResolvesAsBefore("libraries") /\ ResolvesAsBefore("plugins")
    /\ (AddReturned /\ ~result.out.ok) => (disk = before /\ writes = 0)

\* A library was added and a library the file had before now resolves to
\* another version, its alias having been set to the version of the new one.
C30_Witness ==
    /\ call = "add_library" /\ result.done /\ result.out.ok /\ writes = 1
    /\ \E k \in KeysOf(before, "libraries") :
         /\ ResolvedIn(before, ValueOf(before, "libraries", k)) = Some(Str(V_1_0_0))
         /\ ResolvedIn(disk, ValueOf(before, "libraries", k)) = Some(Str(V_2_0_0))

====
